---------------------------- MODULE Spec2Model ----------------------------
(***************************************************************************)
(* A model of the Alex assistant's safety-relevant cores:                  *)
(*   - the pending-trade ledger of alex/brokerage/tastytrade_tools.py      *)
(*     (SpecLedger: concurrent callers of the trade tools),                *)
(*   - the trade responder's tool loop of alex/agents/nodes/trade.py       *)
(*     (SpecTurn),                                                         *)
(*   - the sandboxed write_file of alex/tools/filesystem.py (SpecFs),      *)
(*   - the turn graph's routing of alex/agents/edges.py (SpecGraph).       *)
(***************************************************************************)
EXTENDS Integers, Sequences, FiniteSets, TLC

VARIABLES
    now,             \* time.time(), in seconds
    pending_trades,  \* _pending_trades: trade_id -> PendingTrade
    pc,              \* each caller's position in the tool it is running
    local,           \* each caller's local variables
    result,          \* the dict a caller's tool returned
    submitLog,       \* the POST .../orders requests the brokerage received
    storedLog,       \* every PendingTrade ever put in the map
    nextSerial,      \* number of PendingTrade objects constructed so far
    calls,           \* number of tool calls started so far
    turn,            \* respond_trade: the locals of the running trade turn
    trades,          \* the rows of the trades audit table
    files,           \* the filesystem: resolved path -> content of a file
    dirs,            \* the filesystem: the directories
    fsCalls,         \* number of write_file calls made so far
    fsLast,          \* what the last write_file call was given and did
    node,            \* the turn graph: the node to run next
    state,           \* the turn graph: the AlexState of the turn
    ran,             \* the turn graph: the nodes that ran in this turn
    outcomes,        \* the turn graph: what the models and stores answered
    interactions,    \* the rows of the interactions table
    sm,              \* respond_self_modify: the locals of the running turn
    code_changes,    \* the rows of the code_changes table
    tables,          \* the tables the summarization pipelines read and write
    runs,            \* the locals of each pipeline run
    sumLog,          \* what the pipeline runs did so far
    retrieval,       \* retrieve_memory: what its sub-queries did and returned
    sessionCache     \* the brokerage session cache file and who uses it

ledgerVars == <<now, pending_trades, pc, local, result, submitLog, storedLog,
                nextSerial, calls>>

turnVars == <<turn, trades>>

fsVars == <<files, dirs, fsCalls, fsLast>>

graphVars == <<node, state, ran, outcomes, interactions>>

smVars == <<sm, code_changes>>

sumVars == <<tables, runs, sumLog>>

restVars == <<smVars, sumVars, retrieval, sessionCache>>

vars == <<ledgerVars, turnVars, fsVars, graphVars, restVars>>

(***************************************************************************)
(* Bounds of the model.                                                    *)
(***************************************************************************)
NumTradeIds == 2    \* distinct values str(uuid4())[:8] takes
MaxTrades == 2      \* PendingTrade objects constructed in one behaviour
MaxCalls == 3       \* tool calls started in one behaviour
MaxTime == 301      \* the clock stops here

\* two concurrent callers of the trade tools
Callers == {1, 2}
TradeIds == 1..NumTradeIds
\* The clock advances in steps that reach the ages 300 (live) and 301 (expired).
TickSteps == {300, 301}

TRADE_EXPIRATION_SECONDS == 300

None == "None"

(***************************************************************************)
(* PendingTrade.is_expired and _cleanup_expired_trades.                    *)
(***************************************************************************)
IsExpiredSignSlip(trade, t) == trade.created_at - t > TRADE_EXPIRATION_SECONDS

IsExpired(trade, t) == t - trade.created_at > TRADE_EXPIRATION_SECONDS

\* the entries that are older than TRADE_EXPIRATION_SECONDS at time t
ExpiredSerials(p, t) == {p[tid].serial : tid \in {x \in DOMAIN p : IsExpired(p[x], t)}}

Restrict(f, S) == [x \in S |-> f[x]]

CleanupExpiredTrades(p, t) ==
    Restrict(p, {tid \in DOMAIN p : ~IsExpired(p[tid], t)})

(***************************************************************************)
(* place_order_dry_run: the input checks and the order payload.            *)
(***************************************************************************)
Actions == {"buy", "SELL", "hold"}
OrderTypes == {"market", "LIMIT", "stop"}
LimitPrices == {None, "185.5"}
Quantities == {0, 1}
InstrumentTypes == {"equity", "Option", "future"}
OptionSymbols == {None, "AAPL  240119C00185000"}

OrderInputs ==
    [symbol : {"AAPL"}, action : Actions, quantity : Quantities,
     order_type : OrderTypes, limit_price : LimitPrices,
     instrument_type : InstrumentTypes, option_symbol : OptionSymbols]

\* str.lower() on the strings the model draws
Lower(s) ==
    CASE s = "SELL" -> "sell"
      [] s = "LIMIT" -> "limit"
      [] s = "Option" -> "option"
      [] OTHER -> s

\* The first input check that fails, "" when all pass (lines 203-222).
ValidationError(in) ==
    LET action == Lower(in.action)
        order_type == Lower(in.order_type)
        instrument_type == Lower(in.instrument_type)
    IN  IF action \notin {"buy", "sell"} THEN "Action must be 'buy' or 'sell'"
        ELSE IF order_type \notin {"market", "limit"}
             THEN "Order type must be 'market' or 'limit'"
        ELSE IF order_type = "limit" /\ in.limit_price = None
             THEN "Limit price required for limit orders"
        ELSE IF in.quantity <= 0 THEN "Quantity must be positive"
        ELSE IF instrument_type \notin {"equity", "option"}
             THEN "Instrument type must be 'equity' or 'option'"
        ELSE IF instrument_type = "option" /\ in.option_symbol = None
             THEN "Option symbol required for option orders"
        ELSE ""

NoPayload ==
    [order_type |-> None, action |-> None, symbol |-> None, quantity |-> 0,
     instrument_type |-> None, price |-> None, price_effect |-> None]

BuildOrderPayload(in) ==
    LET action == Lower(in.action)
        order_type == Lower(in.order_type)
        instrument_type == Lower(in.instrument_type)
        priced == order_type = "limit" /\ in.limit_price # None
    IN  [order_type |-> IF order_type = "market" THEN "Market" ELSE "Limit",
         action |-> IF action = "buy" THEN "Buy to Open" ELSE "Sell to Close",
         symbol |-> IF instrument_type = "option" THEN in.option_symbol
                    ELSE in.symbol,
         quantity |-> in.quantity,
         instrument_type |-> IF instrument_type = "equity" THEN "Equity"
                             ELSE "Equity Option",
         price |-> IF priced THEN in.limit_price ELSE None,
         price_effect |-> IF ~priced THEN None
                          ELSE IF action = "buy" THEN "Debit" ELSE "Credit"]

\* What the brokerage may answer to a POST: a status and a body.
Statuses == {200, 201, 422}
Bodies == {"json_object", "json_null_data", "not_json"}

DryRunAcceptsAny(status) == TRUE

\* line 261: the dry run validated the order
DryRunAccepts(status) == status \in {200, 201}

\* line 467: the order was executed
SubmitAccepted(status) == status \in {200, 201}


(***************************************************************************)
(* The ledger's entries, the callers' locals and the tools' results.       *)
(***************************************************************************)
NoInputs ==
    [symbol |-> None, action |-> None, quantity |-> 0, order_type |-> None,
     limit_price |-> None, instrument_type |-> None, option_symbol |-> None]

\* serial is not a field of the code's PendingTrade: it tells apart the objects
\* that were constructed, which may share a trade_id over time.
NoTrade ==
    [trade_id |-> 0, order_payload |-> NoPayload, created_at |-> 0, serial |-> 0]

NewPendingTrade(tid, payload, t, serial) ==
    [trade_id |-> tid, order_payload |-> payload, created_at |-> t,
     serial |-> serial]

\* what close_position_dry_run was called with and what it found
NoClose ==
    [symbol |-> None, quantity |-> <<>>, found |-> FALSE, position_quantity |-> 0,
     delegated |-> FALSE]

\* expired_at_start holds the serials of the entries that were expired when
\* the call began; holds_lock tells whether the caller is inside a
\* "with _pending_trades_lock" block.
NoLocal ==
    [op |-> "none", tid |-> 0, inputs |-> NoInputs, payload |-> NoPayload,
     validated |-> FALSE, body |-> None, pending |-> NoTrade,
     checked_at |-> 0, present |-> FALSE, age |-> 0, took |-> FALSE,
     posted |-> FALSE, stored |-> FALSE, submitted |-> FALSE,
     expired_at_start |-> {}, holds_lock |-> FALSE, close |-> NoClose]

NoResult ==
    [success |-> FALSE, error |-> "", trade_id |-> 0,
     requires_confirmation |-> FALSE, expires_in_seconds |-> 0,
     executed |-> FALSE, cancelled |-> FALSE]

Failure(msg) == [NoResult EXCEPT !.error = msg]

\* _pending_trades_lock can be acquired
LockFree == \A c \in Callers : ~local[c].holds_lock

HeldAcrossSubmit(section) == section = "confirm_trade"

\* whether the lock is still held at the statement that follows the with
\* block of the section: every block ends before the next request
HeldAfter(section) == FALSE

LiveSerials(p) == {p[tid].serial : tid \in DOMAIN p}

InitLedger ==
    /\ now = 0
    /\ pending_trades = <<>>
    /\ pc = [c \in Callers |-> "idle"]
    /\ local = [c \in Callers |-> NoLocal]
    /\ result = [c \in Callers |-> NoResult]
    /\ submitLog = <<>>
    /\ storedLog = {}
    /\ nextSerial = 0
    /\ calls = 0

(***************************************************************************)
(* place_order_dry_run (lines 175-333).                                    *)
(***************************************************************************)
DryRunsInFlight ==
    Cardinality({c \in Callers :
                    /\ local[c].op \in {"place_order_dry_run",
                                        "close_position_dry_run"}
                    /\ pc[c] # "ret"})

\* line 199: the call starts by sweeping the ledger
DryRunCleanup(c) ==
    /\ pc[c] = "idle"
    /\ calls < MaxCalls
    /\ nextSerial + DryRunsInFlight < MaxTrades
    /\ LockFree
    /\ calls' = calls + 1
    /\ pending_trades' = CleanupExpiredTrades(pending_trades, now)
    /\ pc' = [pc EXCEPT ![c] = "dry_validate"]
    /\ local' = [local EXCEPT ![c] = [NoLocal EXCEPT !.op = "place_order_dry_run",
                                                      !.expired_at_start = ExpiredSerials(pending_trades, now)]]
    /\ UNCHANGED <<now, result, submitLog, storedLog, nextSerial>>

\* the arguments of the call: the caller's, or those close_position_dry_run
\* passes at line 398
DryRunInputs(c, Inputs) ==
    IF local[c].op = "close_position_dry_run" THEN {local[c].inputs} ELSE Inputs

\* lines 201-268: the input checks, the session, the dry-run request
DryRunValidate(c, Inputs) ==
    /\ pc[c] = "dry_validate"
    /\ \E in \in DryRunInputs(c, Inputs), sessionOk \in BOOLEAN, status \in Statuses, body \in Bodies :
        LET err == ValidationError(in)
            payload == BuildOrderPayload(in)
            mine == [local[c] EXCEPT !.inputs = in]
            sent == [mine EXCEPT !.payload = payload, !.posted = TRUE,
                                 !.validated = status \in {200, 201},
                                 !.body = body]
        IN  IF err # ""
            THEN /\ result' = [result EXCEPT ![c] = Failure(err)]
                 /\ pc' = [pc EXCEPT ![c] = "ret"]
                 /\ local' = [local EXCEPT ![c] = mine]
            ELSE IF ~sessionOk
            THEN \* get_session / get_primary_account raised
                 /\ result' = [result EXCEPT ![c] = Failure("session")]
                 /\ pc' = [pc EXCEPT ![c] = "ret"]
                 /\ local' = [local EXCEPT ![c] = mine]
            ELSE /\ local' = [local EXCEPT ![c] = sent]
                 /\ IF ~DryRunAccepts(status)
                    THEN /\ result' = [result EXCEPT ![c] = Failure("Order validation failed")]
                         /\ pc' = [pc EXCEPT ![c] = "ret"]
                    ELSE IF body = "not_json"
                    THEN \* line 268: response.json() raised
                         /\ result' = [result EXCEPT ![c] = Failure("exception")]
                         /\ pc' = [pc EXCEPT ![c] = "ret"]
                    ELSE /\ pc' = [pc EXCEPT ![c] = "dry_store"]
                         /\ UNCHANGED result
    /\ UNCHANGED <<now, pending_trades, submitLog, storedLog, nextSerial, calls>>

\* lines 270-326: a trade_id is drawn, the PendingTrade is stored under the
\* lock, and the result is built (line 320 reads the response's data again).
DryRunStore(c) ==
    /\ pc[c] = "dry_store"
    /\ LockFree
    /\ \E tid \in TradeIds :
        LET trade == NewPendingTrade(tid, local[c].payload, now, nextSerial + 1)
        IN  /\ pending_trades' =
                [x \in DOMAIN pending_trades \cup {tid} |->
                    IF x = tid THEN trade ELSE pending_trades[x]]
            /\ storedLog' = storedLog \cup
                   {[trade_id |-> tid, serial |-> nextSerial + 1,
                     payload |-> local[c].payload,
                     validated |-> local[c].validated]}
            /\ local' = [local EXCEPT ![c].stored = TRUE, ![c].tid = tid]
            /\ result' = [result EXCEPT ![c] =
                   IF local[c].body = "json_null_data"
                   THEN Failure("exception")
                   ELSE [NoResult EXCEPT !.success = TRUE, !.trade_id = tid,
                            !.requires_confirmation = TRUE,
                            !.expires_in_seconds = TRADE_EXPIRATION_SECONDS]]
    /\ nextSerial' = nextSerial + 1
    /\ pc' = [pc EXCEPT ![c] = "ret"]
    /\ UNCHANGED <<now, submitLog, calls>>

(***************************************************************************)
(* confirm_trade (lines 425-502).                                          *)
(***************************************************************************)
ConfirmCleanup(c) ==
    /\ pc[c] = "idle"
    /\ calls < MaxCalls
    /\ calls' = calls + 1
    /\ LockFree
    /\ \E tid \in TradeIds :
        local' = [local EXCEPT ![c] = [NoLocal EXCEPT !.op = "confirm_trade",
                                                      !.tid = tid,
                                                      !.expired_at_start = ExpiredSerials(pending_trades, now)]]
    /\ pending_trades' = CleanupExpiredTrades(pending_trades, now)
    /\ pc' = [pc EXCEPT ![c] = "conf_lock"]
    /\ UNCHANGED <<now, result, submitLog, storedLog, nextSerial>>

PendingAfterLockKeeps(p, tid, t) ==
    IF tid \in DOMAIN p /\ IsExpired(p[tid], t)
    THEN Restrict(p, DOMAIN p \ {tid})
    ELSE p

\* lines 438-455: what the locked section leaves in the map
PendingAfterLock(p, tid, t) == Restrict(p, DOMAIN p \ {tid})

\* present and age record what the map held when the locked section read it.
ConfirmLock(c) ==
    LET tid == local[c].tid
        seen == [local[c] EXCEPT
                    !.checked_at = now,
                    !.present = tid \in DOMAIN pending_trades,
                    !.age = IF tid \in DOMAIN pending_trades
                            THEN now - pending_trades[tid].created_at ELSE 0]
    IN  /\ pc[c] = "conf_lock"
        /\ LockFree
        /\ pending_trades' = PendingAfterLock(pending_trades, tid, now)
        /\ IF tid \notin DOMAIN pending_trades
           THEN /\ result' = [result EXCEPT ![c] = Failure("not found or has expired")]
                /\ pc' = [pc EXCEPT ![c] = "ret"]
                /\ local' = [local EXCEPT ![c] = seen]
           ELSE IF IsExpired(pending_trades[tid], now)
           THEN /\ result' = [result EXCEPT ![c] = Failure("has expired")]
                /\ pc' = [pc EXCEPT ![c] = "ret"]
                /\ local' = [local EXCEPT ![c] = seen]
           ELSE /\ local' = [local EXCEPT ![c] =
                       [seen EXCEPT !.pending = pending_trades[tid], !.took = TRUE,
                                    !.holds_lock = HeldAfter("confirm_trade")]]
                /\ pc' = [pc EXCEPT ![c] = "conf_submit"]
                /\ UNCHANGED result
        /\ UNCHANGED <<now, submitLog, storedLog, nextSerial, calls>>

PendingAfterSubmitRestores(p, trade, executed) ==
    IF executed THEN p
    ELSE [x \in DOMAIN p \cup {trade.trade_id} |->
             IF x = trade.trade_id THEN trade ELSE p[x]]

\* lines 467-502: no path after the request touches the map
PendingAfterSubmit(p, trade, executed) == p

\* line 464: json=pending.order_payload
SubmittedPayload(trade) == trade.order_payload

ConfirmSubmit(c) ==
    /\ pc[c] = "conf_submit"
    /\ \E sessionOk \in BOOLEAN, status \in Statuses, body \in Bodies :
        LET trade == local[c].pending
            executed == sessionOk /\ SubmitAccepted(status) /\ body = "json_object"
        IN  /\ IF ~sessionOk
               THEN \* line 457: get_session raised
                    /\ result' = [result EXCEPT ![c] =
                           [Failure("session") EXCEPT !.trade_id = local[c].tid]]
                    /\ UNCHANGED <<submitLog, local>>
               ELSE /\ submitLog' = Append(submitLog,
                           [trade_id |-> local[c].tid, serial |-> trade.serial,
                            payload |-> SubmittedPayload(trade),
                            created_at |-> trade.created_at,
                            checked_at |-> local[c].checked_at])
                    /\ local' = [local EXCEPT ![c].submitted = TRUE]
                    /\ result' = [result EXCEPT ![c] =
                           IF executed
                           THEN [NoResult EXCEPT !.success = TRUE, !.executed = TRUE,
                                                 !.trade_id = local[c].tid]
                           ELSE [Failure("Order execution failed") EXCEPT
                                    !.trade_id = local[c].tid]]
            /\ pending_trades' = PendingAfterSubmit(pending_trades, trade, executed)
    /\ pc' = [pc EXCEPT ![c] = "ret"]
    /\ UNCHANGED <<now, storedLog, nextSerial, calls>>

(***************************************************************************)
(* cancel_pending_trade (lines 505-530).                                   *)
(***************************************************************************)
PoppedButLeftInMap(p, tid) == Restrict(p, DOMAIN p)

\* line 516: what pop(trade_id, None) leaves in the map
AfterPop(p, tid) == Restrict(p, DOMAIN p \ {tid})

\* line 516: pending = _pending_trades.pop(trade_id, None)
Popped(p, tid) == IF tid \in DOMAIN p THEN p[tid] ELSE NoTrade

CancelSucceedsAlways(p, tid) == TRUE

\* lines 516-518: pop(trade_id, None) returned a PendingTrade
CancelSucceeds(p, tid) == tid \in DOMAIN p

CancelPendingTrade(c) ==
    /\ pc[c] = "idle"
    /\ calls < MaxCalls
    /\ calls' = calls + 1
    /\ LockFree
    /\ \E tid \in TradeIds :
        /\ local' = [local EXCEPT ![c] =
               [NoLocal EXCEPT !.op = "cancel_pending_trade",
                               !.tid = tid,
                               !.expired_at_start = ExpiredSerials(pending_trades, now),
                               !.pending = Popped(pending_trades, tid)]]
        /\ pending_trades' = AfterPop(pending_trades, tid)
        /\ result' = [result EXCEPT ![c] =
               IF CancelSucceeds(pending_trades, tid)
               THEN [NoResult EXCEPT !.success = TRUE, !.cancelled = TRUE,
                                     !.trade_id = tid]
               ELSE Failure("not found or already expired/executed")]
    /\ pc' = [pc EXCEPT ![c] = "ret"]
    /\ UNCHANGED <<now, submitLog, storedLog, nextSerial>>

(***************************************************************************)
(* close_position_dry_run (lines 336-422).                                 *)
(***************************************************************************)
\* the quantity argument: <<>> when it is omitted (None), <<q>> otherwise
CloseQuantities == {<<>>, <<0>>, <<1>>, <<3>>}

\* the positions get_positions returns: none, a long and a short equity
\* position, an option position, and a position of another symbol first
PositionBooks ==
    {<<>>,
     <<[symbol |-> "AAPL", underlying_symbol |-> "AAPL", quantity |-> 2,
        instrument_type |-> "Equity"]>>,
     <<[symbol |-> "AAPL", underlying_symbol |-> "AAPL", quantity |-> -2,
        instrument_type |-> "Equity"]>>,
     <<[symbol |-> "AAPL  240119C00185000", underlying_symbol |-> "AAPL",
        quantity |-> 1, instrument_type |-> "Equity Option"]>>,
     <<[symbol |-> "MSFT", underlying_symbol |-> "MSFT", quantity |-> 5,
        instrument_type |-> "Equity"],
       [symbol |-> "AAPL", underlying_symbol |-> "AAPL", quantity |-> 2,
        instrument_type |-> "Equity"]>>}

Abs(x) == IF x < 0 THEN -x ELSE x

\* lines 361-365: the index of the first position of the symbol, 0 if none
FindPosition(positions, symbol) ==
    LET matching == {i \in 1..Len(positions) :
                        \/ positions[i].symbol = symbol
                        \/ positions[i].underlying_symbol = symbol}
    IN  IF matching = {} THEN 0
        ELSE CHOOSE i \in matching : \A j \in matching : i <= j

\* line 375: close_quantity = quantity if quantity else pos_quantity
CloseQuantity(quantity, pos_quantity) ==
    IF quantity # <<>> /\ quantity[1] # 0 THEN quantity[1] ELSE pos_quantity

\* lines 390-394: "option" in (instrument_type or "equity").lower()
CloseInstrumentType(position) ==
    IF position.instrument_type = "Equity Option" THEN "option" ELSE "equity"

\* lines 367-405: the error the call returns, or the arguments it passes to
\* place_order_dry_run
ClosePositionOrder(symbol, quantity, positions) ==
    LET i == FindPosition(positions, symbol)
    IN  IF i = 0
        THEN [error |-> "No position found", order |-> NoInputs]
        ELSE LET position == positions[i]
                 pos_quantity == Abs(position.quantity)
                 close_quantity == CloseQuantity(quantity, pos_quantity)
                 instrument_type == CloseInstrumentType(position)
             IN  IF close_quantity > pos_quantity
                 THEN [error |-> "Cannot close", order |-> NoInputs]
                 ELSE [error |-> "",
                       order |->
                           [symbol |-> IF instrument_type = "equity" THEN symbol
                                       ELSE position.underlying_symbol,
                            action |-> IF position.quantity > 0 THEN "sell"
                                       ELSE "buy",
                            quantity |-> close_quantity,
                            order_type |-> "market",
                            limit_price |-> None,
                            instrument_type |-> instrument_type,
                            option_symbol |-> IF instrument_type = "option"
                                              THEN position.symbol ELSE None]]

\* line 350: the call starts by sweeping the ledger
CloseCleanup(c, Asked) ==
    /\ pc[c] = "idle"
    /\ calls < MaxCalls
    /\ nextSerial + DryRunsInFlight < MaxTrades
    /\ LockFree
    /\ calls' = calls + 1
    /\ pending_trades' = CleanupExpiredTrades(pending_trades, now)
    /\ pc' = [pc EXCEPT ![c] = "close_positions"]
    /\ \E quantity \in Asked :
        local' = [local EXCEPT ![c] =
            [NoLocal EXCEPT
                !.op = "close_position_dry_run",
                !.expired_at_start = ExpiredSerials(pending_trades, now),
                !.close = [NoClose EXCEPT !.symbol = "AAPL",
                                          !.quantity = quantity]]]
    /\ UNCHANGED <<now, result, submitLog, storedLog, nextSerial>>

\* lines 354-396: get_positions, the position of the symbol, the order
ClosePositions(c, Books) ==
    /\ pc[c] = "close_positions"
    /\ \E success \in BOOLEAN, positions \in Books :
        LET close == local[c].close
            i == FindPosition(positions, close.symbol)
            seen == [close EXCEPT
                        !.found = i # 0,
                        !.position_quantity =
                            IF i # 0 THEN positions[i].quantity ELSE 0]
            made == ClosePositionOrder(close.symbol, close.quantity, positions)
        IN  IF ~success
            THEN /\ result' = [result EXCEPT ![c] = Failure("Failed to get positions")]
                 /\ pc' = [pc EXCEPT ![c] = "ret"]
                 /\ UNCHANGED local
            ELSE IF made.error # ""
            THEN /\ result' = [result EXCEPT ![c] = Failure(made.error)]
                 /\ pc' = [pc EXCEPT ![c] = "ret"]
                 /\ local' = [local EXCEPT ![c].close = seen]
            ELSE /\ local' = [local EXCEPT
                        ![c].close = [seen EXCEPT !.delegated = TRUE],
                        ![c].inputs = made.order]
                 /\ pc' = [pc EXCEPT ![c] = "close_delegate"]
                 /\ UNCHANGED result
    /\ UNCHANGED <<now, pending_trades, submitLog, storedLog, nextSerial, calls>>

\* lines 398-405 and 199: place_order_dry_run is called and sweeps the ledger
CloseDelegate(c) ==
    /\ pc[c] = "close_delegate"
    /\ LockFree
    /\ pending_trades' = CleanupExpiredTrades(pending_trades, now)
    /\ pc' = [pc EXCEPT ![c] = "dry_validate"]
    /\ UNCHANGED <<now, local, result, submitLog, storedLog, nextSerial, calls>>

\* the tool's result reaches its caller
Return(c) ==
    /\ pc[c] = "ret"
    /\ pc' = [pc EXCEPT ![c] = "idle"]
    /\ local' = [local EXCEPT ![c] = NoLocal]
    /\ result' = [result EXCEPT ![c] = NoResult]
    /\ UNCHANGED <<now, pending_trades, submitLog, storedLog, nextSerial, calls>>

Tick ==
    /\ \E d \in TickSteps :
        /\ now + d <= MaxTime
        /\ now' = now + d
    /\ UNCHANGED <<pending_trades, pc, local, result, submitLog, storedLog,
                   nextSerial, calls>>

\* The orders the concurrent callers place: a market buy of an equity and a
\* limit sale of an option.
LedgerInputs ==
    {in \in OrderInputs :
        /\ in.quantity = 1
        /\ \/ in.action = "buy" /\ in.order_type = "market" /\ in.limit_price = None
              /\ in.instrument_type = "equity" /\ in.option_symbol = None
           \/ in.action = "SELL" /\ in.order_type = "LIMIT" /\ in.limit_price # None
              /\ in.instrument_type = "Option" /\ in.option_symbol # None}

NextLedger ==
    \/ Tick /\ UNCHANGED <<turnVars, fsVars, graphVars, restVars>>
    \/ \E c \in Callers :
        \/ DryRunCleanup(c) /\ UNCHANGED <<turnVars, fsVars, graphVars, restVars>>
        \/ DryRunValidate(c, LedgerInputs) /\ UNCHANGED <<turnVars, fsVars, graphVars, restVars>>
        \/ DryRunStore(c) /\ UNCHANGED <<turnVars, fsVars, graphVars, restVars>>
        \/ ConfirmCleanup(c) /\ UNCHANGED <<turnVars, fsVars, graphVars, restVars>>
        \/ ConfirmLock(c) /\ UNCHANGED <<turnVars, fsVars, graphVars, restVars>>
        \/ ConfirmSubmit(c) /\ UNCHANGED <<turnVars, fsVars, graphVars, restVars>>
        \/ CancelPendingTrade(c) /\ UNCHANGED <<turnVars, fsVars, graphVars, restVars>>
        \/ Return(c) /\ UNCHANGED <<turnVars, fsVars, graphVars, restVars>>

\* One caller using the tools one after another, with every order input.
NextDryRun ==
    \/ Tick /\ UNCHANGED <<turnVars, fsVars, graphVars, restVars>>
    \/ DryRunCleanup(1) /\ UNCHANGED <<turnVars, fsVars, graphVars, restVars>>
    \/ DryRunValidate(1, OrderInputs) /\ UNCHANGED <<turnVars, fsVars, graphVars, restVars>>
    \/ DryRunStore(1) /\ UNCHANGED <<turnVars, fsVars, graphVars, restVars>>
    \/ ConfirmCleanup(1) /\ UNCHANGED <<turnVars, fsVars, graphVars, restVars>>
    \/ ConfirmLock(1) /\ UNCHANGED <<turnVars, fsVars, graphVars, restVars>>
    \/ ConfirmSubmit(1) /\ UNCHANGED <<turnVars, fsVars, graphVars, restVars>>
    \/ CancelPendingTrade(1) /\ UNCHANGED <<turnVars, fsVars, graphVars, restVars>>
    \/ Return(1) /\ UNCHANGED <<turnVars, fsVars, graphVars, restVars>>

\* The positions the concurrent callers close: none, and all of a long
\* position.
LedgerCloseQuantities == {<<>>}

LedgerPositionBooks == {b \in PositionBooks : Len(b) = 0 \/ (Len(b) = 1 /\ b[1].quantity = 2)}

\* Two callers using the four entry points of the ledger: caller 1 places
\* and closes, caller 2 confirms and cancels.
NextEntryPoints ==
    \/ Tick /\ UNCHANGED <<turnVars, fsVars, graphVars, restVars>>
    \/ DryRunCleanup(1) /\ UNCHANGED <<turnVars, fsVars, graphVars, restVars>>
    \/ DryRunValidate(1, LedgerInputs) /\ UNCHANGED <<turnVars, fsVars, graphVars, restVars>>
    \/ DryRunStore(1) /\ UNCHANGED <<turnVars, fsVars, graphVars, restVars>>
    \/ CloseCleanup(1, LedgerCloseQuantities) /\ UNCHANGED <<turnVars, fsVars, graphVars, restVars>>
    \/ ClosePositions(1, LedgerPositionBooks) /\ UNCHANGED <<turnVars, fsVars, graphVars, restVars>>
    \/ CloseDelegate(1) /\ UNCHANGED <<turnVars, fsVars, graphVars, restVars>>
    \/ ConfirmCleanup(2) /\ UNCHANGED <<turnVars, fsVars, graphVars, restVars>>
    \/ ConfirmLock(2) /\ UNCHANGED <<turnVars, fsVars, graphVars, restVars>>
    \/ ConfirmSubmit(2) /\ UNCHANGED <<turnVars, fsVars, graphVars, restVars>>
    \/ CancelPendingTrade(2) /\ UNCHANGED <<turnVars, fsVars, graphVars, restVars>>
    \/ \E c \in Callers :
        Return(c) /\ UNCHANGED <<turnVars, fsVars, graphVars, restVars>>

(***************************************************************************)
(* The trade responder's tool loop: respond_trade of                       *)
(* alex/agents/nodes/trade.py.  The turn is caller 1 of the trade tools.   *)
(***************************************************************************)
max_iterations == 10

MaxParts == 2    \* function calls in one model response

\* the methods of class PostgresStore
PostgresStoreMethods ==
    {"get_pool", "close", "connection", "ensure_user", "ensure_time_tree",
     "store_interaction", "_link_to_concepts", "get_interactions_for_date",
     "get_daily_summary", "create_daily_summary", "get_weekly_summary",
     "get_daily_summaries_for_week", "create_weekly_summary",
     "get_unsummarized_days", "get_unsummarized_weeks",
     "get_weekly_summaries_for_month", "get_unsummarized_months",
     "create_monthly_summary", "get_related_concepts", "store_code_change",
     "_extract_concepts_from_files", "_link_change_to_concepts",
     "get_recent_code_changes", "get_code_changes_for_file",
     "semantic_search", "health_check"}

\* lines 246-262: postgres_store.store_trade(...) for each executed trade,
\* inside try / except Exception.  Calling a method the class does not have
\* raises AttributeError, which the except turns into a warning.
AuditExecutedTrades(rows, executed) ==
    IF "store_trade" \in PostgresStoreMethods
    THEN rows \o [i \in 1..Len(executed) |-> [trade_id |-> executed[i]]]
    ELSE rows

NoTurn ==
    [pc |-> "idle", iteration |-> 0, tool_rounds |-> 0, remaining |-> 0,
     executed_trades |-> <<>>, n_tool_results |-> 0, processing_stage |-> None, error |-> None,
     current_cortex |-> None]

InitTurn ==
    /\ turn = NoTurn
    /\ trades = <<>>

\* lines 306-317 (and 290-304): the turn returns the error response
TurnFailed(t, msg) ==
    [t EXCEPT !.pc = "done", !.processing_stage = "error", !.error = msg,
              !.current_cortex = "flash"]

\* lines 114-143: executed_trades = [], the user message, get_client()
TurnStart ==
    /\ turn.pc = "idle"
    /\ \E clientOk \in BOOLEAN :
        turn' = IF clientOk
                THEN [NoTurn EXCEPT !.pc = "generate"]
                ELSE TurnFailed(NoTurn, "ValueError")
    /\ UNCHANGED <<ledgerVars, trades>>

\* lines 147-184 and 236-243: one round of the loop asks the model; a response
\* without function call ends the loop
TurnGenerate ==
    /\ turn.pc = "generate"
    /\ turn.iteration < max_iterations
    /\ \E outcome \in {"text", "function_calls", "raises"}, n \in 1..MaxParts :
        LET t == [turn EXCEPT !.iteration = @ + 1]
        IN  turn' = CASE outcome = "text" -> [t EXCEPT !.pc = "audit"]
                      [] outcome = "function_calls" ->
                            [t EXCEPT !.pc = "tools", !.remaining = n,
                                      !.tool_rounds = @ + 1]
                      [] outcome = "raises" -> TurnFailed(t, "Exception")
    /\ UNCHANGED <<ledgerVars, trades>>

\* the turn is about to execute the next function call of the response
ToolCallDue == turn.pc = "tools" /\ turn.remaining > 0 /\ pc[1] = "idle"

\* lines 195-234 and 145: the result is recorded; after the last function call
\* of the response the loop condition is tested again
AfterToolCall(t) ==
    [t EXCEPT !.n_tool_results = @ + 1,
              !.remaining = @ - 1,
              !.pc = IF t.remaining > 1 THEN "tools"
                     ELSE IF t.iteration < max_iterations THEN "generate"
                     ELSE "audit"]

\* lines 194-211: a ledger tool returned; a successful confirm_trade is noted
TurnToolResult ==
    /\ turn.pc = "tools"
    /\ pc[1] = "ret"
    /\ turn' = [AfterToolCall(turn) EXCEPT !.executed_trades =
                   IF local[1].op = "confirm_trade" /\ result[1].success
                   THEN Append(@, result[1].trade_id)
                   ELSE @]
    /\ Return(1)
    /\ UNCHANGED trades

\* get_positions, get_account_balances or an unknown tool name: the ledger is
\* not touched
TurnOtherTool ==
    /\ ToolCallDue
    /\ turn' = AfterToolCall(turn)
    /\ UNCHANGED <<ledgerVars, trades>>

\* tastytrade_tools.py line 666: the model's arguments do not fit the tool's
\* parameters; the TypeError leaves execute_trade_tool and ends the turn
TurnToolRaises ==
    /\ ToolCallDue
    /\ turn' = TurnFailed(turn, "TypeError")
    /\ UNCHANGED <<ledgerVars, trades>>

\* lines 238-288: the audit of the executed trades and the response
TurnAudit ==
    /\ turn.pc = "audit"
    /\ trades' = IF turn.executed_trades # <<>>
                 THEN AuditExecutedTrades(trades, turn.executed_trades)
                 ELSE trades
    /\ turn' = [turn EXCEPT !.pc = "done", !.processing_stage = "trade",
                            !.current_cortex = "trade"]
    /\ UNCHANGED ledgerVars

\* lines 278-288 and 290-317: the tool_outputs of the state after the turn;
\* the error returns have no tool_outputs key and leave the initial {}
TurnToolOutputs(t) ==
    IF t.processing_stage = "trade"
    THEN [executed_trades |-> t.executed_trades]
    ELSE [executed_trades |-> <<>>]

(***************************************************************************)
(* write_file of alex/tools/filesystem.py.  A path is a sequence of        *)
(* components, relative to the project root or absolute.                   *)
(***************************************************************************)
MaxPathLen == 3    \* components of a path argument
MaxWrites == 1     \* write_file calls in one behaviour

PROJECT_ROOT == <<"proj">>

\* "alex/", "tests/", ...: the first component, followed by "/"
ALLOWED_PATHS == {"alex", "tests", "web", "schema", "scripts"}

PROTECTED_FILES ==
    {<<"cloudbuild.yaml">>, <<"CLAUDE.md">>, <<"SESSION_STATE.md">>,
     <<"alex", "config.py">>, <<"schema", "neo4j_schema.cypher">>,
     <<".env">>, <<".env.example">>}

ALLOWED_EXTENSIONS ==
    {".py", ".js", ".ts", ".tsx", ".jsx", ".html", ".css", ".scss", ".json",
     ".yaml", ".yml", ".toml", ".md", ".txt", ".rst", ".sh", ".bash",
     ".cypher", ".sql"}

Components ==
    {"alex", "docs", "..", "config.py", "foo.py", "run.exe", "proj", "cfg.py"}

\* the suffix of a component from its last dot on
Suffix(c) ==
    CASE c \in {"config.py", "foo.py", "cfg.py"} -> ".py"
      [] c = "run.exe" -> ".exe"
      [] OTHER -> ""

PathArgs ==
    [abs : BOOLEAN,
     parts : UNION {[1..n -> Components] : n \in 0..MaxPathLen}]

\* the symbolic links of the tree: alex/cfg.py points at alex/config.py
Symlinks ==
    [p \in {<<"proj", "alex", "cfg.py">>} |-> <<"proj", "alex", "config.py">>]

Front(p) == SubSeq(p, 1, Len(p) - 1)

IsPrefix(a, b) == Len(a) <= Len(b) /\ SubSeq(b, 1, Len(a)) = a

IsSuffix(a, b) ==
    Len(a) <= Len(b) /\ SubSeq(b, Len(b) - Len(a) + 1, Len(b)) = a

RECURSIVE Walk(_, _)
Walk(cur, rest) ==
    IF rest = <<>> THEN cur
    ELSE LET c == Head(rest)
             nxt == IF c = ".."
                    THEN (IF cur = <<>> THEN cur ELSE Front(cur))
                    ELSE Append(cur, c)
             followed == IF nxt \in DOMAIN Symlinks THEN Symlinks[nxt] ELSE nxt
         IN  Walk(followed, Tail(rest))

\* (PROJECT_ROOT / path).resolve(): an absolute path replaces the root, ".."
\* steps up, a symbolic link is followed
Resolve(path) == Walk(IF path.abs THEN <<>> ELSE PROJECT_ROOT, path.parts)

\* resolved.relative_to(PROJECT_ROOT), for a path under the root
RelativeTo(p, root) == SubSeq(p, Len(root) + 1, Len(p))

IsPathAllowedUnresolved(path) ==
    /\ ~path.abs
    /\ Len(path.parts) >= 2
    /\ path.parts[1] \in ALLOWED_PATHS

\* _is_path_allowed: rel_path.startswith("alex/") and the like
IsPathAllowed(path) ==
    LET resolved == Resolve(path)
    IN  IF ~IsPrefix(PROJECT_ROOT, resolved)
        THEN FALSE
        ELSE LET rel_path == RelativeTo(resolved, PROJECT_ROOT)
             IN  \E allowed \in ALLOWED_PATHS :
                    Len(rel_path) >= 2 /\ rel_path[1] = allowed

IsProtectedFileUnresolved(path) ==
    path.abs \/ path.parts \in PROTECTED_FILES

\* _is_protected_file: rel_path in PROTECTED_FILES or ends with "/" + one
IsProtectedFile(path) ==
    LET resolved == Resolve(path)
    IN  IF ~IsPrefix(PROJECT_ROOT, resolved)
        THEN TRUE
        ELSE LET rel_path == RelativeTo(resolved, PROJECT_ROOT)
             IN  \/ rel_path \in PROTECTED_FILES
                 \/ \E pf \in PROTECTED_FILES :
                        Len(rel_path) > Len(pf) /\ IsSuffix(pf, rel_path)

\* _has_allowed_extension: the path as given ends with an allowed extension
HasAllowedExtension(path) ==
    /\ path.parts # <<>>
    /\ Suffix(path.parts[Len(path.parts)]) \in ALLOWED_EXTENSIONS

\* lines 176-179
ProtectedNeedsConfirmation(path, require_confirmation) ==
    IsProtectedFile(path) /\ require_confirmation

\* the directories a path lies in, the root of the tree included
Ancestors(p) == {SubSeq(p, 1, n) : n \in 0..(Len(p) - 1)}

NoFsLast ==
    [called |-> FALSE, absolute |-> FALSE, outside_root |-> FALSE, outside_subtrees |-> FALSE,
     extension_allowed |-> FALSE, protected |-> FALSE,
     require_confirmation |-> FALSE, create_dirs |-> FALSE,
     outcome |-> None, error |-> "", target_existed |-> FALSE, target_changed |-> FALSE,
     mutated |-> FALSE]

InitFs ==
    /\ dirs = {<<>>, <<"proj">>, <<"proj", "alex">>, <<"proj", "docs">>}
    /\ files = [p \in {<<"proj", "alex", "config.py">>,
                        <<"proj", "alex", "foo.py">>} |-> 0]
    /\ fsCalls = 0
    /\ fsLast = NoFsLast

\* what the call is given, as the path-sandboxing rules name it
DescribeCall(path, create_dirs, require_confirmation) ==
    LET resolved == Resolve(path)
        inside == IsPrefix(PROJECT_ROOT, resolved)
        rel == RelativeTo(resolved, PROJECT_ROOT)
    IN  [NoFsLast EXCEPT
            !.called = TRUE,
            !.absolute = path.abs,
            !.outside_root = ~inside,
            !.outside_subtrees =
                ~(inside /\ Len(rel) >= 2 /\ rel[1] \in ALLOWED_PATHS),
            !.extension_allowed =
                path.parts # <<>>
                /\ Suffix(path.parts[Len(path.parts)]) \in ALLOWED_EXTENSIONS,
            !.protected =
                inside /\ \E pf \in PROTECTED_FILES : IsSuffix(pf, rel),
            !.require_confirmation = require_confirmation,
            !.create_dirs = create_dirs,
            !.target_existed = resolved \in DOMAIN files]

\* write_file (lines 150-203); the content written is the number of the call
WriteFile ==
    /\ ~fsLast.called
    /\ fsCalls < MaxWrites
    /\ fsCalls' = fsCalls + 1
    /\ \E path \in PathArgs, create_dirs \in BOOLEAN,
          require_confirmation \in BOOLEAN :
        LET given == DescribeCall(path, create_dirs, require_confirmation)
            abs_path == Resolve(path)
            parent == Front(abs_path)
            refusal ==
                IF ~IsPathAllowed(path)
                THEN "Path not in allowed directories"
                ELSE IF ~HasAllowedExtension(path)
                THEN "File extension not allowed"
                ELSE IF ProtectedNeedsConfirmation(path, require_confirmation)
                THEN "File is protected and requires explicit confirmation"
                ELSE IF ~IsPrefix(PROJECT_ROOT, abs_path)
                THEN "Path escapes project root"
                ELSE ""
            made == IF create_dirs THEN dirs \cup Ancestors(abs_path) ELSE dirs
        IN  IF refusal # ""
            THEN \* lines 170-181: PermissionDeniedError before anything is done
                 /\ fsLast' = [given EXCEPT !.outcome = "PermissionDeniedError",
                                            !.error = refusal]
                 /\ UNCHANGED <<files, dirs>>
            ELSE IF abs_path \in dirs
            THEN \* line 185: read_text of a directory
                 /\ fsLast' = [given EXCEPT !.outcome = "IsADirectoryError",
                                            !.error = "Is a directory"]
                 /\ UNCHANGED <<files, dirs>>
            ELSE IF Ancestors(abs_path) \cap DOMAIN files # {}
                    \/ parent \notin made
            THEN \* lines 188-191: mkdir or write_text fails, nothing is made
                 /\ fsLast' = [given EXCEPT !.outcome = "FileSystemError",
                                            !.error = "Failed to write file"]
                 /\ UNCHANGED <<files, dirs>>
            ELSE /\ dirs' = made
                 /\ files' = [p \in DOMAIN files \cup {abs_path} |->
                                 IF p = abs_path THEN fsCalls + 1 ELSE files[p]]
                 /\ fsLast' = [given EXCEPT !.outcome = "success",
                                            !.target_changed = TRUE,
                                            !.mutated = TRUE]
    /\ UNCHANGED <<ledgerVars, turnVars, graphVars, restVars>>

\* execute_tool (lines 560-590) hands the outcome to the tool loop
FsReturn ==
    /\ fsLast.called
    /\ fsLast' = NoFsLast
    /\ UNCHANGED <<files, dirs, fsCalls, ledgerVars, turnVars, graphVars, restVars>>

(***************************************************************************)
(* The turn graph of alex/agents/graph.py: its nodes (alex/agents/nodes)   *)
(* and its conditional edges (alex/agents/edges.py, alex/cortex/router.py).*)
(* complexity_score is counted in tenths.                                  *)
(***************************************************************************)
complexity_threshold == 7

Intents ==
    {"chat", "question", "code_change", "refactor", "debug", "test",
     "memory_query", "task_planning", "creative", "self_modify", "trade",
     "deploy", "architecture", "analysis", None}

ComplexityScores == 0..10

\* the texts a user sends: 0, 2, 5 and 34 characters
UserMessages == {"", "hi", "hello", "what did we decide about the plan?"}

\* the conversation_history a caller supplies
Histories ==
    {<<>>,
     <<[role |-> "user", content |-> "an earlier question"],
       [role |-> "assistant", content |-> "An earlier answer."]>>}

\* invoke_alex: initial_state
InitialState ==
    [messages |-> <<>>, intent |-> None, complexity_score |-> 0,
     error |-> None, processing_stage |-> "intake", current_cortex |-> "flash",
     model_used |-> None, relevant_interactions |-> 0]

InitGraph ==
    /\ node = "START"
    /\ state = InitialState
    /\ ran = <<>>
    /\ outcomes = <<>>
    /\ interactions = <<>>

RECURSIVE LastContentOf(_, _)
LastContentOf(messages, role) ==
    IF messages = <<>> THEN None
    ELSE IF messages[Len(messages)].role = role
    THEN messages[Len(messages)].content
    ELSE LastContentOf(SubSeq(messages, 1, Len(messages) - 1), role)

\* get_last_user_message
GetLastUserMessage(s) == LastContentOf(s.messages, "user")

\* get_last_assistant_message
GetLastAssistantMessage(s) == LastContentOf(s.messages, "assistant")

\* Python's truth value of a str | None
Truthy(text) == text # None /\ text # ""

AIMessage(text) == [role |-> "assistant", content |-> text]

RouteToCortexStrict(s) ==
    IF s.intent \in {"code_change", "refactor", "debug", "test", "deploy"}
    THEN "claude_code"
    ELSE IF s.complexity_score > complexity_threshold
    THEN "pro"
    ELSE IF s.intent \in {"task_planning", "architecture", "analysis"}
    THEN "pro"
    ELSE "flash"

\* route_to_cortex
RouteToCortex(s) ==
    IF s.intent \in {"code_change", "refactor", "debug", "test", "deploy"}
    THEN "claude_code"
    ELSE IF s.complexity_score >= complexity_threshold
    THEN "pro"
    ELSE IF s.intent \in {"task_planning", "architecture", "analysis"}
    THEN "pro"
    ELSE "flash"

RouteAfterClassifyIgnoresError(s) ==
    IF s.intent = "self_modify" THEN "self_modify"
    ELSE IF s.intent = "trade" THEN "trade"
    ELSE LET cortex == RouteToCortex(s)
         IN  IF cortex = "claude_code" THEN "engineer"
             ELSE IF s.intent \in {"memory_query", "question", "task_planning"}
             THEN "retrieve_memory"
             ELSE IF cortex = "pro" THEN "respond_pro"
             ELSE "respond_flash"

RouteAfterClassifyCortexFirst(s) ==
    IF Truthy(s.error) \/ s.processing_stage = "error" THEN "error"
    ELSE IF s.intent = "self_modify" THEN "self_modify"
    ELSE IF s.intent = "trade" THEN "trade"
    ELSE IF RouteToCortex(s) = "claude_code" THEN "engineer"
    ELSE IF RouteToCortex(s) = "pro" THEN "respond_pro"
    ELSE IF s.intent \in {"memory_query", "question", "task_planning"}
    THEN "retrieve_memory"
    ELSE "respond_flash"

\* route_after_classify
RouteAfterClassify(s) ==
    IF Truthy(s.error) \/ s.processing_stage = "error" THEN "error"
    ELSE IF s.intent = "self_modify" THEN "self_modify"
    ELSE IF s.intent = "trade" THEN "trade"
    ELSE LET cortex == RouteToCortex(s)
         IN  IF cortex = "claude_code" THEN "engineer"
             ELSE IF s.intent \in {"memory_query", "question", "task_planning"}
             THEN "retrieve_memory"
             ELSE IF cortex = "pro" THEN "respond_pro"
             ELSE "respond_flash"

NodeAfterClassifyErrorEnds(r) ==
    CASE r = "retrieve_memory" -> "retrieve_memory"
      [] r = "respond_flash" -> "respond_flash"
      [] r = "respond_pro" -> "respond_pro"
      [] r = "engineer" -> "respond_engineer"
      [] r = "self_modify" -> "respond_self_modify"
      [] r = "trade" -> "respond_trade"
      [] r = "error" -> "END"

\* graph.py: the mapping of add_conditional_edges("classify_intent", ...)
NodeAfterClassify(r) ==
    CASE r = "retrieve_memory" -> "retrieve_memory"
      [] r = "respond_flash" -> "respond_flash"
      [] r = "respond_pro" -> "respond_pro"
      [] r = "engineer" -> "respond_engineer"
      [] r = "self_modify" -> "respond_self_modify"
      [] r = "trade" -> "respond_trade"
      [] r = "error" -> "handle_error"

\* invoke_alex: the history and the user's message enter the graph
InvokeAlex ==
    /\ node = "START"
    /\ \E history \in Histories, user_message \in UserMessages :
        state' = [InitialState EXCEPT !.messages =
                     Append(history, [role |-> "user", content |-> user_message])]
    /\ node' = "classify_intent"
    /\ ran' = <<>>
    /\ outcomes' = <<>>
    /\ UNCHANGED <<interactions, ledgerVars, turnVars, fsVars, restVars>>

\* what a call of a model or of a store answered
Outcome(call, outcome, text) == [call |-> call, outcome |-> outcome, text |-> text]

\* str(e) of the exception a failing call raises
ExceptionTexts == {"", "timed out"}

ParseFailureAborts(s) ==
    [s EXCEPT !.processing_stage = "error",
              !.error = "Classification failed: not JSON"]

\* classify.py lines 113-124: except json.JSONDecodeError
ParseFailureFallback(s) ==
    [s EXCEPT !.intent = "chat", !.complexity_score = 5,
              !.processing_stage = "classify"]

\* classify_intent
ClassifyIntent ==
    /\ node = "classify_intent"
    /\ IF ~Truthy(GetLastUserMessage(state))
       THEN /\ state' = [state EXCEPT !.processing_stage = "error",
                                      !.error = "No user message to classify"]
            /\ UNCHANGED outcomes
       ELSE \E answer \in {"json", "json_without_keys", "not_json", "raises"},
               i \in Intents, k \in ComplexityScores, e \in ExceptionTexts :
            /\ outcomes' = Append(outcomes, Outcome("classifier", answer, ""))
            /\ state' =
                 CASE answer = "json" ->
                        [state EXCEPT !.intent = i, !.complexity_score = k,
                                      !.processing_stage = "classify"]
                   [] answer = "json_without_keys" ->
                        [state EXCEPT !.intent = "chat", !.complexity_score = 3,
                                      !.processing_stage = "classify"]
                   [] answer = "not_json" -> ParseFailureFallback(state)
                   [] answer = "raises" ->
                        [state EXCEPT !.processing_stage = "error",
                                      !.error = "Classification failed: " \o e]
    /\ node' = "route_after_classify"
    /\ ran' = Append(ran, "classify_intent")
    /\ UNCHANGED <<interactions, ledgerVars, turnVars, fsVars, restVars>>

\* the conditional edge after classify_intent
EdgeAfterClassify ==
    /\ node = "route_after_classify"
    /\ node' = NodeAfterClassify(RouteAfterClassify(state))
    /\ UNCHANGED <<state, ran, outcomes, interactions, ledgerVars, turnVars, fsVars, restVars>>

top_k == 5

MemoryFailureAborts(s) ==
    [s EXCEPT !.processing_stage = "error",
              !.error = "Memory retrieval failed"]

\* memory.py lines 88-95: except Exception returns an empty MemoryContext
MemoryFailureResult(s) ==
    [s EXCEPT !.relevant_interactions = 0,
              !.processing_stage = "retrieve_memory"]

\* retrieve_memory: the number of relevant interactions it puts in the
\* MemoryContext; semantic_search runs for a message of more than 10 characters
RetrieveMemory ==
    /\ node = "retrieve_memory"
    /\ \E raises \in BOOLEAN, found \in 0..top_k :
        LET user_message == GetLastUserMessage(state)
            searched == Truthy(user_message) /\ Len(user_message) > 10
        IN  /\ outcomes' = Append(outcomes,
                   Outcome("retriever", IF raises THEN "raises" ELSE "ok", ""))
            /\ state' = IF raises
                        THEN MemoryFailureResult(state)
                        ELSE [state EXCEPT
                                 !.relevant_interactions =
                                     IF searched THEN found ELSE 0,
                                 !.processing_stage = "retrieve_memory"]
    /\ node' = "route_after_memory"
    /\ ran' = Append(ran, "retrieve_memory")
    /\ UNCHANGED <<interactions, ledgerVars, turnVars, fsVars, restVars>>

RouteAfterMemoryFromThree(s) ==
    IF Truthy(s.error) \/ s.processing_stage = "error" THEN "error"
    ELSE IF s.complexity_score >= 7 THEN "respond_pro"
    ELSE IF s.relevant_interactions >= 3 THEN "respond_pro"
    ELSE "respond_flash"

\* route_after_memory; 0.7 is written out in the code
RouteAfterMemory(s) ==
    IF Truthy(s.error) \/ s.processing_stage = "error" THEN "error"
    ELSE IF s.complexity_score >= 7 THEN "respond_pro"
    ELSE IF s.relevant_interactions > 3 THEN "respond_pro"
    ELSE "respond_flash"

\* graph.py: the mapping of add_conditional_edges("retrieve_memory", ...)
NodeAfterMemory(r) ==
    CASE r = "respond_flash" -> "respond_flash"
      [] r = "respond_pro" -> "respond_pro"
      [] r = "error" -> "handle_error"

\* the conditional edge after retrieve_memory
EdgeAfterMemory ==
    /\ node = "route_after_memory"
    /\ node' = NodeAfterMemory(RouteAfterMemory(state))
    /\ UNCHANGED <<state, ran, outcomes, interactions, ledgerVars, turnVars, fsVars, restVars>>

(***************************************************************************)
(* The responder nodes.  Each appends at most one assistant message and    *)
(* hands the turn to the should_store edge.                                *)
(***************************************************************************)
flash_model == "gemini-3-flash-preview"
pro_model == "gemini-3-pro-preview"

\* the texts a model can answer with: 0, 9 and 32 characters
ResponseTexts == {"", "Hi there!", "Hello! How can I help you today?"}

Responders ==
    {"respond_flash", "respond_pro", "respond_engineer",
     "respond_self_modify", "respond_trade"}

AddMessage(s, text) ==
    [s EXCEPT !.messages = Append(s.messages, AIMessage(text))]

\* respond_flash: the state it returns
FlashResult(s, ok, text, e) ==
    IF ok
    THEN [AddMessage(s, text) EXCEPT !.current_cortex = "flash",
                                     !.model_used = flash_model,
                                     !.processing_stage = "generate_response"]
    ELSE [s EXCEPT !.processing_stage = "error",
                   !.error = "Response generation failed: " \o e]

RespondFlash ==
    /\ node = "respond_flash"
    /\ \E ok \in BOOLEAN, text \in ResponseTexts, e \in ExceptionTexts :
        /\ ok => e = ""
        /\ ~ok => text = ""
        /\ state' = FlashResult(state, ok, text, e)
        /\ outcomes' = Append(outcomes,
               Outcome("flash", IF ok THEN "ok" ELSE "raises", text))
    /\ node' = "should_store"
    /\ ran' = Append(ran, "respond_flash")
    /\ UNCHANGED <<interactions, ledgerVars, turnVars, fsVars, restVars>>

ProResultWithoutFallback(s, pro_ok, pro_text, flash_ok, flash_text, e) ==
    IF pro_ok
    THEN [AddMessage(s, pro_text) EXCEPT !.current_cortex = "pro",
                                         !.model_used = pro_model,
                                         !.processing_stage = "generate_response"]
    ELSE [s EXCEPT !.processing_stage = "error",
                   !.error = "Response generation failed: " \o e]

\* respond_pro: the state it returns; a failure of Pro returns what
\* respond_flash returns
ProResult(s, pro_ok, pro_text, flash_ok, flash_text, e) ==
    IF pro_ok
    THEN [AddMessage(s, pro_text) EXCEPT !.current_cortex = "pro",
                                         !.model_used = pro_model,
                                         !.processing_stage = "generate_response"]
    ELSE FlashResult(s, flash_ok, flash_text, e)

RespondPro ==
    /\ node = "respond_pro"
    /\ \E pro_ok \in BOOLEAN, pro_text \in ResponseTexts,
          flash_ok \in BOOLEAN, flash_text \in ResponseTexts,
          e \in ExceptionTexts :
        /\ pro_ok => (flash_ok /\ flash_text = "" /\ e = "")
        /\ ~pro_ok => pro_text = ""
        /\ (~pro_ok /\ flash_ok) => e = ""
        /\ (~pro_ok /\ ~flash_ok) => flash_text = ""
        /\ state' = ProResult(state, pro_ok, pro_text, flash_ok, flash_text, e)
        /\ outcomes' =
             IF pro_ok
             THEN Append(outcomes, Outcome("pro", "ok", pro_text))
             ELSE outcomes \o
                  <<Outcome("pro", "raises", ""),
                    Outcome("flash", IF flash_ok THEN "ok" ELSE "raises",
                            flash_text)>>
    /\ node' = "should_store"
    /\ ran' = Append(ran, "respond_pro")
    /\ UNCHANGED <<interactions, ledgerVars, turnVars, fsVars, restVars>>

\* what the call of the engineering model does: it answers, it raises the
\* ValueError of a missing API key, or the API call raises something else
ClaudeOutcomes == {"ok", "not_configured", "raises"}

\* respond_engineer: the state it returns
EngineerResult(s, claude, text, pro_ok, pro_text, e) ==
    CASE claude = "ok" /\ Truthy(GetLastUserMessage(s)) ->
           [AddMessage(s, text) EXCEPT
               !.current_cortex = "claude_code",
               !.model_used = "claude-sonnet-4-20250514",
               !.processing_stage = "engineer"]
      [] claude = "not_configured" \/ ~Truthy(GetLastUserMessage(s)) ->
           IF pro_ok
           THEN [AddMessage(s, pro_text) EXCEPT
                    !.current_cortex = "pro",
                    !.model_used = "gemini-3-pro-preview (fallback)",
                    !.processing_stage = "engineer_fallback"]
           ELSE [AddMessage(s, "I apologize, but I'm unable to process engineering tasks at the moment.")
                 EXCEPT !.current_cortex = "flash",
                        !.processing_stage = "error",
                        !.error = IF Truthy(GetLastUserMessage(s))
                                  THEN "ANTHROPIC_API_KEY not configured"
                                  ELSE "No user message found"]
      [] OTHER ->
           [AddMessage(s, "I encountered an issue while processing this engineering request: " \o e)
            EXCEPT !.current_cortex = "flash",
                   !.processing_stage = "error",
                   !.error = e]

\* the calls respond_engineer makes
EngineerCalls(s, claude, text, pro_ok, pro_text) ==
    (IF Truthy(GetLastUserMessage(s))
     THEN <<Outcome("claude", claude, text)>> ELSE <<>>)
    \o
    (IF claude = "not_configured" \/ ~Truthy(GetLastUserMessage(s))
     THEN <<Outcome("pro", IF pro_ok THEN "ok" ELSE "raises", pro_text)>>
     ELSE <<>>)

RespondEngineer ==
    /\ node = "respond_engineer"
    /\ \E claude \in ClaudeOutcomes, text \in ResponseTexts,
          pro_ok \in BOOLEAN, pro_text \in ResponseTexts,
          e \in ExceptionTexts :
        /\ claude # "ok" => text = ""
        /\ claude # "raises" => e = ""
        /\ (claude # "not_configured" \/ ~pro_ok) => pro_text = ""
        /\ claude # "not_configured" => pro_ok
        /\ state' = EngineerResult(state, claude, text, pro_ok, pro_text, e)
        /\ outcomes' = outcomes \o
                       EngineerCalls(state, claude, text, pro_ok, pro_text)
    /\ node' = "should_store"
    /\ ran' = Append(ran, "respond_engineer")
    /\ UNCHANGED <<interactions, ledgerVars, turnVars, fsVars, restVars>>

\* respond_self_modify: the state it returns after its tool loop
SelfModifyResult(s, ok, text, e) ==
    IF ok
    THEN [AddMessage(s, text) EXCEPT !.current_cortex = "self_modify",
                                     !.model_used = flash_model,
                                     !.processing_stage = "self_modify"]
    ELSE [AddMessage(s, "I encountered an error while trying to modify the codebase: " \o e)
          EXCEPT !.current_cortex = "flash",
                 !.processing_stage = "error",
                 !.error = e]

RespondSelfModify ==
    /\ node = "respond_self_modify"
    /\ \E ok \in BOOLEAN, text \in ResponseTexts, e \in ExceptionTexts :
        /\ ok => e = ""
        /\ ~ok => text = ""
        /\ state' = SelfModifyResult(state, ok, text, e)
        /\ outcomes' = Append(outcomes,
               Outcome("self_modify_loop", IF ok THEN "ok" ELSE "raises", text))
    /\ node' = "should_store"
    /\ ran' = Append(ran, "respond_self_modify")
    /\ UNCHANGED <<interactions, ledgerVars, turnVars, fsVars, restVars>>

\* what the tool loop of respond_trade does: it answers, it raises the
\* ValueError of missing credentials, or it raises something else
TradeOutcomes == {"ok", "not_configured", "raises"}

\* respond_trade: the state it returns after its tool loop
TradeResult(s, outcome, text, e) ==
    CASE outcome = "ok" ->
           [AddMessage(s, text) EXCEPT !.current_cortex = "trade",
                                       !.model_used = flash_model,
                                       !.processing_stage = "trade"]
      [] outcome = "not_configured" ->
           [AddMessage(s, "Trading is not available: TastyTrade credentials not configured")
            EXCEPT !.current_cortex = "flash",
                   !.processing_stage = "error",
                   !.error = "TastyTrade credentials not configured"]
      [] OTHER ->
           [AddMessage(s, "I encountered an error while processing your trading request: " \o e)
            EXCEPT !.current_cortex = "flash",
                   !.processing_stage = "error",
                   !.error = e]

RespondTrade ==
    /\ node = "respond_trade"
    /\ \E outcome \in TradeOutcomes, text \in ResponseTexts,
          e \in ExceptionTexts :
        /\ outcome # "ok" => text = ""
        /\ outcome # "raises" => e = ""
        /\ state' = TradeResult(state, outcome, text, e)
        /\ outcomes' = Append(outcomes, Outcome("trade_loop", outcome, text))
    /\ node' = "should_store"
    /\ ran' = Append(ran, "respond_trade")
    /\ UNCHANGED <<interactions, ledgerVars, turnVars, fsVars, restVars>>

(***************************************************************************)
(* should_store, store_interaction and handle_error.                       *)
(***************************************************************************)
ShouldStoreAnyUserMessage(s) ==
    LET user_msg == GetLastUserMessage(s)
        assistant_msg == GetLastAssistantMessage(s)
    IN  IF Truthy(s.error) THEN "complete"
        ELSE IF ~Truthy(user_msg) \/ ~Truthy(assistant_msg) THEN "complete"
        ELSE IF Len(assistant_msg) < 10 THEN "complete"
        ELSE "store"

\* should_store: the conditional edge after every responder
ShouldStore(s) ==
    LET user_msg == GetLastUserMessage(s)
        assistant_msg == GetLastAssistantMessage(s)
    IN  IF Truthy(s.error) THEN "complete"
        ELSE IF ~Truthy(user_msg) \/ ~Truthy(assistant_msg) THEN "complete"
        ELSE IF Len(user_msg) < 5 \/ Len(assistant_msg) < 10 THEN "complete"
        ELSE "store"

\* the mapping of the conditional edges after the responders
NodeAfterResponder(r) ==
    IF r = "store" THEN "store_interaction" ELSE "END"

EdgeShouldStore ==
    /\ node = "should_store"
    /\ node' = NodeAfterResponder(ShouldStore(state))
    /\ UNCHANGED <<state, ran, outcomes, interactions, ledgerVars, turnVars, fsVars, restVars>>

\* the row store.store_interaction writes
InteractionRow(s, embedded) ==
    [user_message |-> GetLastUserMessage(s),
     assistant_response |-> GetLastAssistantMessage(s),
     intent |-> s.intent,
     complexity_score |-> s.complexity_score,
     model_used |-> s.model_used,
     embedded |-> embedded]

StoreFailurePropagates(s) ==
    [s EXCEPT !.processing_stage = "error",
              !.error = "Failed to store interaction"]

\* memory.py lines 151-154: except Exception returns processing_stage complete
StoreFailureResult(s) ==
    [s EXCEPT !.processing_stage = "complete"]

\* store_interaction
StoreInteraction ==
    /\ node = "store_interaction"
    /\ \E embedding_ok \in BOOLEAN, write_ok \in BOOLEAN :
        IF ~Truthy(GetLastUserMessage(state))
             \/ ~Truthy(GetLastAssistantMessage(state))
        THEN /\ state' = [state EXCEPT !.processing_stage = "complete"]
             /\ UNCHANGED <<interactions, outcomes>>
        ELSE /\ outcomes' = outcomes \o
                  <<Outcome("embedding",
                            IF embedding_ok THEN "ok" ELSE "raises", ""),
                    Outcome("database",
                            IF write_ok THEN "ok" ELSE "raises", "")>>
             /\ IF write_ok
                THEN /\ interactions' =
                          Append(interactions,
                                 InteractionRow(state, embedding_ok))
                     /\ state' = [state EXCEPT !.processing_stage = "complete"]
                ELSE /\ UNCHANGED interactions
                     /\ state' = StoreFailureResult(state)
    /\ node' = "END"
    /\ ran' = Append(ran, "store_interaction")
    /\ UNCHANGED <<ledgerVars, turnVars, fsVars, restVars>>

\* the message handle_error appends
ErrorMessage(error) ==
    "I encountered an error: " \o error \o ". Please try again."

\* handle_error
HandleError ==
    /\ node = "handle_error"
    /\ state' = [AddMessage(state, ErrorMessage(state.error))
                 EXCEPT !.processing_stage = "error"]
    /\ node' = "END"
    /\ ran' = Append(ran, "handle_error")
    /\ UNCHANGED <<outcomes, interactions, ledgerVars, turnVars, fsVars, restVars>>

\* what invoke_alex returns of the final state
ResultOf(s) ==
    [response |-> GetLastAssistantMessage(s),
     intent |-> s.intent,
     complexity_score |-> s.complexity_score,
     model_used |-> s.model_used,
     cortex |-> s.current_cortex]

(***************************************************************************)
(* The self-modify responder's tool loop: respond_self_modify of           *)
(* alex/agents/nodes/self_modify.py.                                       *)
(***************************************************************************)
MaxFileWrites == 2    \* write_file calls in one turn

\* the path arguments the model passes to write_file
WritePaths == {"alex/a.py", "alex/b.py"}

\* the requests of the user
Requests == {"add a helper", "fix the parser"}

NoSelfModify ==
    [pc |-> "idle", user_message |-> None, iteration |-> 0, remaining |-> 0,
     last_text |-> "", files_modified |-> <<>>, writes |-> <<>>,
     store_calls |-> 0, final_response |-> None, processing_stage |-> None,
     error |-> None]

InitSelfModify ==
    /\ sm = NoSelfModify
    /\ code_changes = <<>>

\* lines 259-276: the turn returns the error response
SelfModifyFailed(t, e) ==
    [t EXCEPT !.pc = "failed", !.processing_stage = "error", !.error = e,
              !.final_response =
                  "I encountered an error while trying to modify the codebase: " \o e]

\* lines 100-124: the user message, get_client(), the empty lists
SelfModifyStart ==
    /\ sm.pc = "idle"
    /\ \E user_message \in Requests, clientOk \in BOOLEAN :
        sm' = IF clientOk
              THEN [NoSelfModify EXCEPT !.pc = "generate",
                                        !.user_message = user_message]
              ELSE SelfModifyFailed(
                       [NoSelfModify EXCEPT !.user_message = user_message],
                       "GOOGLE_API_KEY not configured")
    /\ UNCHANGED <<code_changes, ledgerVars, turnVars, fsVars, graphVars, sumVars, retrieval,
                   sessionCache>>

\* lines 247-276: the tool_outputs of the state after the turn; the error
\* return has no tool_outputs key and leaves the initial {}
SelfModifyToolOutputs(t) ==
    IF t.processing_stage = "self_modify"
    THEN [files_modified |-> t.files_modified]
    ELSE [files_modified |-> <<>>]

\* lines 126-148 and 191-195: one round of the loop asks the model; a response
\* without function call ends the loop
SelfModifyGenerate ==
    /\ sm.pc = "generate"
    /\ sm.iteration < max_iterations
    /\ \E outcome \in {"text", "function_calls", "raises"},
          n \in 1..MaxParts, text \in {"", "Done."}, e \in ExceptionTexts :
        LET t == [sm EXCEPT !.iteration = @ + 1]
        IN  sm' = CASE outcome = "text" ->
                         [t EXCEPT !.pc = "store", !.last_text = text]
                    [] outcome = "function_calls" ->
                         [t EXCEPT !.pc = "tools", !.remaining = n,
                                   !.last_text = text]
                    [] outcome = "raises" -> SelfModifyFailed(t, e)
    /\ UNCHANGED <<code_changes, ledgerVars, turnVars, fsVars, graphVars, sumVars, retrieval,
                   sessionCache>>

FilesModifiedAfterAnyWrite(files_modified, func_name, path, success) ==
    IF func_name = "write_file"
    THEN Append(files_modified, path)
    ELSE files_modified

\* lines 173-175: a successful write_file adds its path argument
FilesModifiedAfter(files_modified, func_name, path, success) ==
    IF func_name = "write_file" /\ success
    THEN Append(files_modified, path)
    ELSE files_modified

\* lines 154-189: one function call of the response is executed; execute_tool
\* returns a result whatever the tool does.  After the last function call of
\* the response the loop condition is tested again.
SelfModifyToolCall ==
    /\ sm.pc = "tools"
    /\ sm.remaining > 0
    /\ \E func_name \in {"write_file", "read_file", "no_such_tool"},
          path \in WritePaths, success \in BOOLEAN :
        /\ func_name = "write_file" => Len(sm.writes) < MaxFileWrites
        /\ func_name = "no_such_tool" => ~success
        /\ sm' = [sm EXCEPT
                    !.writes = IF func_name = "write_file"
                               THEN Append(@, [path |-> path, success |-> success])
                               ELSE @,
                    !.files_modified =
                        FilesModifiedAfter(@, func_name, path, success),
                    !.remaining = @ - 1,
                    !.pc = IF sm.remaining > 1 THEN "tools"
                           ELSE IF sm.iteration < max_iterations THEN "generate"
                           ELSE "store"]
    /\ UNCHANGED <<code_changes, ledgerVars, turnVars, fsVars, graphVars, sumVars, retrieval,
                   sessionCache>>

\* the row store_code_change inserts
CodeChange(t) ==
    [files_modified |-> t.files_modified,
     reasoning |-> t.user_message,
     change_type |-> "feature"]

\* lines 197-257: after the loop the change is recorded if files were
\* modified, and the response is returned; store_code_change may raise
\* before or after its INSERT
SelfModifyStore ==
    /\ sm.pc = "store"
    /\ IF sm.files_modified = <<>>
       THEN /\ sm' = [sm EXCEPT !.pc = "done",
                                !.final_response = sm.last_text,
                                !.processing_stage = "self_modify"]
            /\ UNCHANGED code_changes
       ELSE \E db \in {"ok", "raises_before_insert", "raises_after_insert"} :
            LET t == [sm EXCEPT !.store_calls = @ + 1]
            IN  /\ code_changes' = IF db = "raises_before_insert"
                                   THEN code_changes
                                   ELSE Append(code_changes, CodeChange(sm))
                /\ sm' = IF db = "ok"
                         THEN [t EXCEPT
                                 !.pc = "done",
                                 !.final_response =
                                     sm.last_text \o " **Files modified:**",
                                 !.processing_stage = "self_modify"]
                         ELSE SelfModifyFailed(t, "connection refused")
    /\ UNCHANGED <<ledgerVars, turnVars, fsVars, graphVars, sumVars, retrieval,
                   sessionCache>>

(***************************************************************************)
(* The summarization pipelines of alex/memory/summarizer.py over the       *)
(* tables of alex/memory/postgres_store.py.                                *)
(***************************************************************************)
max_days == 7
max_weeks == 4
max_months == 2

MaxNewInteractions == 1    \* interactions stored while the pipelines run

Tiers == {"daily", "weekly", "monthly"}

\* two pipeline runs, which may overlap
Runs == {1, 2}

\* the limit a run is called with: the default of its tier, or 1
Limits(tier) ==
    {1, CASE tier = "daily" -> max_days
          [] tier = "weekly" -> max_weeks
          [] tier = "monthly" -> max_months}

\* ensure_time_tree: date.year, date.month and date.isocalendar().week of
\* the dates of the model, in ascending order
Calendar ==
    <<[date |-> "2026-01-12", year |-> 2026, month |-> 1, week_number |-> 3],
      [date |-> "2026-01-20", year |-> 2026, month |-> 1, week_number |-> 4],
      [date |-> "2026-01-31", year |-> 2026, month |-> 1, week_number |-> 5],
      [date |-> "2026-02-01", year |-> 2026, month |-> 2, week_number |-> 5],
      [date |-> "2026-02-03", year |-> 2026, month |-> 2, week_number |-> 6]>>

DayRow(date_str) ==
    CHOOSE d \in {Calendar[i] : i \in 1..Len(Calendar)} : d.date = date_str

\* date.today() of store_interaction
Today == "2026-02-03"

\* d.year || '-W' || LPAD(d.week_number::text, 2, '0')
WeekId(year, week) ==
    ToString(year) \o "-W" \o (IF week < 10 THEN "0" ELSE "") \o ToString(week)

\* d.year || '-' || d.month
MonthId(year, month) == ToString(year) \o "-" \o ToString(month)

\* week_id.split("-W") and month_id.split("-"), read as integers
ParseWeekId(week_id) ==
    CHOOSE p \in (2025..2027) \X (1..53) : WeekId(p[1], p[2]) = week_id

ParseMonthId(month_id) ==
    CHOOSE p \in (2025..2027) \X (1..12) : MonthId(p[1], p[2]) = month_id

\* the units that have source rows, summarized or not
WithSourceRows(tier, d) ==
    CASE tier = "daily" ->
           {day.date : day \in
               {x \in d.days : \E i \in d.interactions : i.date = x.date}}
      [] tier = "weekly" ->
           {WeekId(day.year, day.week_number) : day \in
               {x \in d.days :
                   \E ds \in d.daily_summaries : ds.date = x.date}}
      [] tier = "monthly" ->
           {MonthId(day.year, day.month) : day \in
               {x \in d.days :
                   \E ws \in d.weekly_summaries :
                       ws.year = x.year /\ ws.week = x.week_number}}

\* get_unsummarized_days / _weeks / _months without ORDER BY and LIMIT
Unsummarized(tier, d) ==
    CASE tier = "daily" ->
           {day.date : day \in
               {x \in d.days :
                   /\ \E i \in d.interactions : i.date = x.date
                   /\ ~\E ds \in d.daily_summaries : ds.date = x.date}}
      [] tier = "weekly" ->
           {WeekId(day.year, day.week_number) : day \in
               {x \in d.days :
                   /\ \E ds \in d.daily_summaries : ds.date = x.date
                   /\ ~\E ws \in d.weekly_summaries :
                          ws.year = x.year /\ ws.week = x.week_number}}
      [] tier = "monthly" ->
           {MonthId(day.year, day.month) : day \in
               {x \in d.days :
                   /\ \E ws \in d.weekly_summaries :
                          ws.year = x.year /\ ws.week = x.week_number
                   /\ ~\E ms \in d.monthly_summaries :
                          ms.year = x.year /\ ms.month = x.month}}

\* the position of a unit in ORDER BY ... DESC
Rank(tier, unit) ==
    CASE tier = "daily" ->
           CHOOSE i \in 1..Len(Calendar) : Calendar[i].date = unit
      [] tier = "weekly" ->
           ParseWeekId(unit)[1] * 100 + ParseWeekId(unit)[2]
      [] tier = "monthly" ->
           ParseMonthId(unit)[1] * 100 + ParseMonthId(unit)[2]

\* ORDER BY ... DESC LIMIT n
RECURSIVE Latest(_, _, _)
Latest(tier, units, n) ==
    IF units = {} \/ n = 0 THEN <<>>
    ELSE LET u == CHOOSE x \in units :
                      \A y \in units : Rank(tier, y) <= Rank(tier, x)
         IN  <<u>> \o Latest(tier, units \ {u}, n - 1)

\* the rows of the source table, whatever unit they belong to
SourceRowsOfAnyUnit(tier, unit, d) ==
    CASE tier = "daily" -> d.interactions
      [] tier = "weekly" -> d.daily_summaries
      [] tier = "monthly" -> d.weekly_summaries

\* get_interactions_for_date / get_daily_summaries_for_week /
\* get_weekly_summaries_for_month: the rows a unit is summarized from
SourceRows(tier, unit, d) ==
    CASE tier = "daily" -> {i \in d.interactions : i.date = unit}
      [] tier = "weekly" ->
           {ds \in d.daily_summaries :
               \E x \in d.days :
                   /\ x.date = ds.date
                   /\ <<x.year, x.week_number>> = ParseWeekId(unit)}
      [] tier = "monthly" ->
           {ws \in d.weekly_summaries :
               \E x \in d.days :
                   /\ ws.year = x.year /\ ws.week = x.week_number
                   /\ <<x.year, x.month>> = ParseMonthId(unit)}

InsertSummary(tier, unit, content, count, d) ==
    CASE tier = "daily" ->
           [d EXCEPT !.days = @ \cup {DayRow(unit)},
                     !.daily_summaries =
                         @ \cup {[date |-> unit, content |-> content,
                                  interaction_count |-> count]}]
      [] tier = "weekly" ->
           [d EXCEPT !.weekly_summaries =
                         @ \cup {[week_id |-> unit,
                                  year |-> ParseWeekId(unit)[1],
                                  week |-> ParseWeekId(unit)[2],
                                  content |-> content,
                                  daily_summary_count |-> count]}]
      [] tier = "monthly" ->
           [d EXCEPT !.monthly_summaries =
                         @ \cup {[month_id |-> unit,
                                  year |-> ParseMonthId(unit)[1],
                                  month |-> ParseMonthId(unit)[2],
                                  content |-> content,
                                  weekly_summary_count |-> count]}]

\* a summary row that records no source rows
InsertSummaryCountingNothing(tier, unit, content, count, d) ==
    InsertSummary(tier, unit, content, 0, d)

\* create_daily_summary / create_weekly_summary / create_monthly_summary:
\* INSERT ... ON CONFLICT (key) DO UPDATE
CreateSummary(tier, unit, content, count, d) ==
    CASE tier = "daily" ->
           [d EXCEPT !.days = @ \cup {DayRow(unit)},
                     !.daily_summaries =
                         {x \in @ : x.date # unit}
                         \cup {[date |-> unit, content |-> content,
                                  interaction_count |-> count]}]
      [] tier = "weekly" ->
           [d EXCEPT !.weekly_summaries =
                         {x \in @ : x.week_id # unit}
                         \cup {[week_id |-> unit,
                                year |-> ParseWeekId(unit)[1],
                                week |-> ParseWeekId(unit)[2],
                                content |-> content,
                                daily_summary_count |-> count]}]
      [] tier = "monthly" ->
           [d EXCEPT !.monthly_summaries =
                         {x \in @ : x.month_id # unit}
                         \cup {[month_id |-> unit,
                                year |-> ParseMonthId(unit)[1],
                                month |-> ParseMonthId(unit)[2],
                                content |-> content,
                                weekly_summary_count |-> count]}]

\* a store in which days, weeks and months are waiting to be summarized
InitialStore ==
    [days |-> {Calendar[i] : i \in 1..4},
     interactions |-> {[id |-> i, date |-> Calendar[i].date] : i \in 1..4},
     daily_summaries |-> {[date |-> Calendar[i].date, content |-> 0,
                           interaction_count |-> 1] : i \in 1..2},
     weekly_summaries |-> {[week_id |-> "2026-W03", year |-> 2026, week |-> 3,
                            content |-> 0, daily_summary_count |-> 1]},
     monthly_summaries |-> {}]

NoRun ==
    [pc |-> "idle", tier |-> "daily", limit |-> 0, before |-> {},
     pending |-> <<>>, processed |-> 0, completed |-> 0, skipped |-> 0,
     errors |-> <<>>, writes |-> 0, disturbed |-> FALSE, after |-> "no",
     count |-> 0, pipeline |-> FALSE, selected |-> {}, fresh |-> {},
     summarized |-> {}, failed |-> {}, capped |-> {}]

InitSummaries ==
    /\ tables = InitialStore
    /\ runs = [r \in Runs |-> NoRun]
    /\ sumLog = [model_calls |-> <<>>,
                 quiet |-> [tier \in Tiers |-> "no"],
                 stored |-> 0]

Running(t) == t.pc \in {"summarize", "store", "return"}

\* the tier that is summarized from the rows of the given table
TierReading(table) ==
    CASE table = "interactions" -> "daily"
      [] table = "daily" -> "weekly"
      [] table = "weekly" -> "monthly"
      [] OTHER -> "none"

\* the runs after a row was written to the table: the runs that read it
\* have seen new source rows
RunsAfterWrite(rs, table) ==
    [r \in Runs |->
        IF \/ Running(rs[r]) /\ rs[r].tier = TierReading(table)
           \/ rs[r].pipeline
        THEN [rs[r] EXCEPT !.disturbed = TRUE]
        ELSE rs[r]]

QuietAfterWrite(quiet, table) ==
    [tier \in Tiers |->
        IF tier = TierReading(table) THEN "no" ELSE quiet[tier]]

\* a pipeline that goes from the daily tier straight to the monthly one
TierAfterWithoutWeekly(tier) ==
    CASE tier = "daily" -> "monthly"
      [] tier = "weekly" -> "monthly"
      [] OTHER -> "none"

\* the tier that run_full_summarization_pipeline awaits after the given one
TierAfter(tier) ==
    CASE tier = "daily" -> "weekly"
      [] tier = "weekly" -> "monthly"
      [] OTHER -> "none"

\* the units of the next tier that have no source row in the store d and
\* have one in the store e
FirstSourceRow(tier, d, e) ==
    IF tier = "monthly" THEN {}
    ELSE WithSourceRows(TierReading(tier), e)
             \ WithSourceRows(TierReading(tier), d)

\* the loop of run_*_summarization moves to its next unit
NextUnit(t) ==
    [t EXCEPT !.pending = Tail(@),
              !.pc = IF Tail(t.pending) = <<>> THEN "return" ELSE "summarize"]

IgnoreFailure(t, unit, e) == t

\* except Exception as e: results["errors"].append(f"{unit}: {str(e)}")
RecordFailure(t, unit, e) ==
    [t EXCEPT !.errors = Append(@, unit \o ": " \o e),
              !.failed = @ \cup {unit}]

\* store_interaction on the day of the model's clock
StoreInteractionRow ==
    /\ sumLog.stored < MaxNewInteractions
    /\ tables' = [tables EXCEPT !.days = @ \cup {DayRow(Today)},
                        !.interactions =
                            @ \cup {[id |-> Cardinality(tables.interactions) + 1,
                                     date |-> Today]}]
    /\ runs' = RunsAfterWrite(runs, "interactions")
    /\ sumLog' = [sumLog EXCEPT !.stored = @ + 1,
                                !.quiet = QuietAfterWrite(@, "interactions")]
    /\ UNCHANGED <<ledgerVars, turnVars, fsVars, graphVars, smVars, retrieval,
                   sessionCache>>

\* run_daily_summarization / run_weekly_summarization /
\* run_monthly_summarization up to their loop
RunStart(r) ==
    /\ runs[r].pc = "idle"
    /\ \E tier \in Tiers :
       \E limit \in Limits(tier) :
           LET before == Unsummarized(tier, tables)
               selected == Latest(tier, before, limit)
           IN  runs' = [runs EXCEPT ![r] =
                   [NoRun EXCEPT
                       !.pc = IF selected = <<>> THEN "return" ELSE "summarize",
                       !.tier = tier,
                       !.limit = limit,
                       !.before = before,
                       !.pending = selected,
                       !.after = sumLog.quiet[tier]]]
    /\ UNCHANGED <<tables, sumLog>>
    /\ UNCHANGED <<ledgerVars, turnVars, fsVars, graphVars, smVars, retrieval,
                   sessionCache>>

\* summarize_day / summarize_week / summarize_month up to the model's
\* answer, inside the try of the loop
SummarizeUnit(r) ==
    LET t == runs[r]
        unit == Head(t.pending)
        counted == [t EXCEPT !.processed = @ + 1]
    IN  /\ t.pc = "summarize"
        /\ IF SourceRows(t.tier, unit, tables) = {}
           THEN /\ runs' = [runs EXCEPT ![r] =
                       NextUnit([counted EXCEPT !.skipped = @ + 1])]
                /\ UNCHANGED sumLog
           ELSE /\ sumLog' = [sumLog EXCEPT !.model_calls =
                                  Append(@, <<t.tier, unit>>)]
                /\ \E outcome \in {"text", "raises"} :
                       runs' = [runs EXCEPT ![r] =
                           IF outcome = "text"
                           THEN [counted EXCEPT
                                    !.pc = "store",
                                    !.count = Cardinality(
                                        SourceRows(t.tier, unit, tables))]
                           ELSE NextUnit(RecordFailure(counted, unit,
                                                       "model unavailable"))]
        /\ UNCHANGED tables
        /\ UNCHANGED <<ledgerVars, turnVars, fsVars, graphVars, smVars, retrieval,
                   sessionCache>>

\* the rest of summarize_*: create_*_summary, then "completed"
StoreSummary(r) ==
    LET t == runs[r]
        unit == Head(t.pending)
    IN  /\ t.pc = "store"
        /\ \E outcome \in {"stored", "raises"} :
               IF outcome = "stored"
               THEN /\ tables' = CreateSummary(t.tier, unit, r, t.count, tables)
                    /\ runs' = [RunsAfterWrite(runs, t.tier) EXCEPT ![r] =
                           NextUnit([t EXCEPT
                               !.completed = @ + 1,
                               !.writes = @ + 1,
                               !.summarized = @ \cup {unit},
                               !.fresh = @ \cup
                                   IF t.pipeline
                                   THEN FirstSourceRow(t.tier, tables, tables')
                                   ELSE {}])]
                    /\ sumLog' = [sumLog EXCEPT
                           !.quiet = QuietAfterWrite(@, t.tier)]
               ELSE /\ runs' = [runs EXCEPT ![r] =
                           NextUnit(RecordFailure(t, unit,
                                                  "connection refused"))]
                    /\ UNCHANGED <<tables, sumLog>>
        /\ UNCHANGED <<ledgerVars, turnVars, fsVars, graphVars, smVars, retrieval,
                   sessionCache>>

\* return results
RunReturn(r) ==
    LET t == runs[r]
    IN  /\ t.pc = "return"
        /\ t.pipeline => t.tier = "monthly"
        /\ runs' = [runs EXCEPT ![r].pc = "finished"]
        /\ sumLog' = [sumLog EXCEPT !.quiet[t.tier] =
               IF /\ t.errors = <<>>
                  /\ ~t.disturbed
                  /\ Cardinality(t.before) <= t.limit
               THEN "finished_clean"
               ELSE "finished"]
        /\ UNCHANGED tables
        /\ UNCHANGED <<ledgerVars, turnVars, fsVars, graphVars, smVars, retrieval,
                   sessionCache>>

\* the days, weeks and months of the calendar of the model
Units(tier) ==
    CASE tier = "daily" -> {Calendar[i].date : i \in 1..Len(Calendar)}
      [] tier = "weekly" ->
           {WeekId(Calendar[i].year, Calendar[i].week_number) :
               i \in 1..Len(Calendar)}
      [] tier = "monthly" ->
           {MonthId(Calendar[i].year, Calendar[i].month) :
               i \in 1..Len(Calendar)}

\* summarize_day(date_str) / summarize_week(week_id) /
\* summarize_month(month_id) called on their own, for any day, week or month
SummarizeCall(r) ==
    /\ runs[r].pc = "idle"
    /\ \E tier \in Tiers :
       \E unit \in Units(tier) :
           runs' = [runs EXCEPT ![r] =
               [NoRun EXCEPT !.pc = "summarize", !.tier = tier, !.limit = 1,
                             !.pending = <<unit>>,
                             !.after = sumLog.quiet[tier]]]
    /\ UNCHANGED <<tables, sumLog>>
    /\ UNCHANGED <<ledgerVars, turnVars, fsVars, graphVars, smVars, retrieval,
                   sessionCache>>

\* the default limit of run_daily_summarization / run_weekly_summarization /
\* run_monthly_summarization
DefaultLimit(tier) ==
    CASE tier = "daily" -> max_days
      [] tier = "weekly" -> max_weeks
      [] tier = "monthly" -> max_months

\* a tier of run_full_summarization_pipeline up to its loop: the results
\* of the tier start empty, the selection is read from the store as it is
SelectTier(t, tier, d) ==
    LET before == Unsummarized(tier, d)
        selected == Latest(tier, before, DefaultLimit(tier))
    IN  [t EXCEPT
            !.pc = IF selected = <<>> THEN "return" ELSE "summarize",
            !.tier = tier,
            !.limit = DefaultLimit(tier),
            !.before = before,
            !.pending = selected,
            !.processed = 0, !.completed = 0, !.skipped = 0, !.errors = <<>>,
            !.selected = @ \cup {selected[i] : i \in 1..Len(selected)},
            !.capped = @ \cup (IF Cardinality(before) > DefaultLimit(tier)
                               THEN {tier} ELSE {})]

\* run_full_summarization_pipeline, line 514: await run_daily_summarization();
\* the scheduled job is started again when the run before it has returned
PipelineStart(r) ==
    /\ runs[r].pc = "idle"
    /\ \A q \in Runs \ {r} : ~Running(runs[q])
    /\ runs' = [runs EXCEPT ![r] =
           SelectTier([NoRun EXCEPT !.pipeline = TRUE], "daily", tables)]
    /\ UNCHANGED <<tables, sumLog>>
    /\ UNCHANGED <<ledgerVars, turnVars, fsVars, graphVars, smVars, retrieval,
                   sessionCache>>

\* lines 515-516: the tier has returned its results, the next one is awaited
PipelineNextTier(r) ==
    LET t == runs[r]
    IN  /\ t.pipeline
        /\ t.pc = "return"
        /\ t.tier # "monthly"
        /\ runs' = [runs EXCEPT ![r] = SelectTier(t, TierAfter(t.tier), tables)]
        /\ UNCHANGED <<tables, sumLog>>
        /\ UNCHANGED <<ledgerVars, turnVars, fsVars, graphVars, smVars,
                       retrieval, sessionCache>>

(***************************************************************************)
(* retrieve_memory of alex/agents/nodes/memory.py and its sub-queries in   *)
(* alex/memory/retriever.py.                                               *)
(***************************************************************************)
\* what a sub-query does: it raises inside, or it has a value to return
Raises == [raises |-> TRUE, value |-> <<>>]

Returns(value) == [raises |-> FALSE, value |-> value]

\* store.get_daily_summary / get_weekly_summary inside get_daily_context
DailyContextOutcomes ==
    {Raises,
     Returns(<<None, None>>),
     Returns(<<"Worked on the parser.", "A week of refactoring.">>)}

\* store.semantic_search, store.get_related_concepts, the projects query
SearchOutcomes == {Raises, Returns(<<>>), Returns(<<"an earlier interaction">>)}

ConceptOutcomes == {Raises, Returns(<<>>), Returns(<<"parsing">>)}

ProjectOutcomes == {Raises, Returns(<<>>), Returns(<<"alex">>)}

\* MemoryContext()
EmptyMemoryContext ==
    [daily_summary |-> None, weekly_summary |-> None,
     relevant_interactions |-> <<>>, related_concepts |-> <<>>,
     related_projects |-> <<>>]

\* retriever.py: semantic_search, get_related_concepts and
\* get_related_projects catch their exceptions and return []
CaughtInside(outcome) == IF outcome.raises THEN <<>> ELSE outcome.value

\* memory.py lines 35-95
MemoryContextOf(user_message, topics, entities, daily, search, concepts, projects) ==
    IF daily.raises
    THEN \* get_daily_context has no try: the except of retrieve_memory
         EmptyMemoryContext
    ELSE [daily_summary |-> daily.value[1],
          weekly_summary |-> daily.value[2],
          relevant_interactions |->
              IF Truthy(user_message) /\ Len(user_message) > 10
              THEN CaughtInside(search) ELSE <<>>,
          related_concepts |->
              IF topics # <<>> THEN CaughtInside(concepts) ELSE <<>>,
          related_projects |->
              IF entities # <<>> THEN CaughtInside(projects) ELSE <<>>]

NoRetrieval ==
    [called |-> FALSE, user_message |-> None, topics |-> <<>>, entities |-> <<>>,
     daily |-> Raises, search |-> Raises, concepts |-> Raises,
     projects |-> Raises, memory_context |-> EmptyMemoryContext]

InitRetrieval == retrieval = NoRetrieval

\* retrieve_memory on a message, with the topics and entities of the
\* classifier; the four outcomes are what each sub-query does if it is called
RetrieveMemoryContext ==
    /\ ~retrieval.called
    /\ \E user_message \in {"hi", "what did we decide about the plan?"},
          topics \in {<<>>, <<"plan">>}, entities \in {<<>>, <<"alex">>},
          daily \in DailyContextOutcomes, search \in SearchOutcomes,
          concepts \in ConceptOutcomes, projects \in ProjectOutcomes :
        retrieval' =
            [called |-> TRUE, user_message |-> user_message,
             topics |-> topics, entities |-> entities,
             daily |-> daily, search |-> search, concepts |-> concepts,
             projects |-> projects,
             memory_context |->
                 MemoryContextOf(user_message, topics, entities,
                                 daily, search, concepts, projects)]
    /\ UNCHANGED <<ledgerVars, turnVars, fsVars, graphVars, smVars, sumVars,
                   sessionCache>>

\* the turn is over
RetrievalDone ==
    /\ retrieval.called
    /\ retrieval' = NoRetrieval
    /\ UNCHANGED <<ledgerVars, turnVars, fsVars, graphVars, smVars, sumVars,
                   sessionCache>>

(***************************************************************************)
(* The session cache file of alex/brokerage/tastytrade_client.py: the      *)
(* process that saves a session, and another process that looks at the     *)
(* file.                                                                   *)
(***************************************************************************)
OwnerReadWrite == {"owner_read", "owner_write"}                    \* 0o600

\* what open(..., "w") asks for when it creates the file: 0o666
CreateMode ==
    OwnerReadWrite \cup {"group_read", "group_write", "other_read", "other_write"}

\* the umask of the process: 0o022 or 0o077
Umasks ==
    {{"group_write", "other_write"},
     {"group_read", "group_write", "other_read", "other_write"}}

\* the sessions _create_session_with_credentials can hand to _save_session
Sessions ==
    [session_token : {"token-1", "token-2"}, is_sandbox : BOOLEAN]

\* json.dump(data, f): the text of the file, field by field
JsonDump(session) == <<session.session_token, session.is_sandbox>>

\* json.load on what is in the file: a session, or JSONDecodeError
JsonLoad(content) ==
    IF Len(content) = 2
    THEN [decoded |-> TRUE, session_token |-> content[1], is_sandbox |-> content[2]]
    ELSE [decoded |-> FALSE, session_token |-> None, is_sandbox |-> FALSE]

NoFile == [exists |-> FALSE, content |-> <<>>, mode |-> {}]

NotSaving == [pc |-> "idle", data |-> <<>>]

NothingObserved == [looked |-> FALSE, exists |-> FALSE, content |-> <<>>, mode |-> {}]

InitSessionCache ==
    sessionCache = [file |-> NoFile, saver |-> NotSaving, observed |-> NothingObserved]

\* _save_session, line 106: open(SESSION_CACHE_FILE, "w") creates the file
\* with the mode the umask leaves, or truncates the one that is there
OpenForWriting(file, umask) ==
    [exists |-> TRUE, content |-> <<>>,
     mode |-> IF file.exists THEN file.mode ELSE CreateMode \ umask]

SaveSessionOpen ==
    /\ sessionCache.saver.pc = "idle"
    /\ \E session \in Sessions, umask \in Umasks :
        sessionCache' =
            [sessionCache EXCEPT
                !.file = OpenForWriting(@, umask),
                !.saver = [pc |-> "open", data |-> JsonDump(session)]]
    /\ UNCHANGED <<ledgerVars, turnVars, fsVars, graphVars, smVars, sumVars,
                   retrieval>>

\* line 107: json.dump writes the text piece by piece into the buffered
\* file; a piece reaches the file when the buffer is flushed
SaveSessionDump ==
    /\ sessionCache.saver.pc = "open"
    /\ \E flushed \in 0..Len(sessionCache.saver.data) :
        sessionCache' =
            [sessionCache EXCEPT
                !.file.content = SubSeq(sessionCache.saver.data, 1, flushed),
                !.saver.pc = "dumped"]
    /\ UNCHANGED <<ledgerVars, turnVars, fsVars, graphVars, smVars, sumVars,
                   retrieval>>

\* the end of the with block: the file is flushed and closed
SaveSessionCloseFile ==
    /\ sessionCache.saver.pc = "dumped"
    /\ sessionCache' =
           [sessionCache EXCEPT
               !.file.content = sessionCache.saver.data,
               !.saver.pc = "closed"]
    /\ UNCHANGED <<ledgerVars, turnVars, fsVars, graphVars, smVars, sumVars,
                   retrieval>>

\* line 110: os.chmod(SESSION_CACHE_FILE, 0o600)
Chmod(file) == [file EXCEPT !.mode = OwnerReadWrite]

SaveSessionChmod ==
    /\ sessionCache.saver.pc = "closed"
    /\ sessionCache' =
           [sessionCache EXCEPT !.file = Chmod(@), !.saver = NotSaving]
    /\ UNCHANGED <<ledgerVars, turnVars, fsVars, graphVars, smVars, sumVars,
                   retrieval>>

\* close_session, lines 328-330, in the process that saves
CloseSession ==
    /\ sessionCache.saver.pc = "idle"
    /\ sessionCache.file.exists
    /\ sessionCache' = [sessionCache EXCEPT !.file = NoFile]
    /\ UNCHANGED <<ledgerVars, turnVars, fsVars, graphVars, smVars, sumVars,
                   retrieval>>

\* another process looks at the file at any moment (_load_cached_session,
\* lines 63-68, or any reader of the path)
ObserveSessionFile ==
    /\ sessionCache' =
           [sessionCache EXCEPT
               !.observed = [looked |-> TRUE,
                             exists |-> sessionCache.file.exists,
                             content |-> sessionCache.file.content,
                             mode |-> sessionCache.file.mode]]
    /\ sessionCache'.observed # sessionCache.observed
    /\ UNCHANGED <<ledgerVars, turnVars, fsVars, graphVars, smVars, sumVars,
                   retrieval>>


(***************************************************************************)
(* The specifications.                                                     *)
(***************************************************************************)
Init == InitLedger /\ InitTurn /\ InitFs /\ InitGraph /\ InitSelfModify
        /\ InitSummaries /\ InitRetrieval /\ InitSessionCache

SpecLedger == Init /\ [][NextLedger]_vars

SpecDryRun == Init /\ [][NextDryRun]_vars

\* One caller closing positions, with every quantity and every set of
\* positions.
NextClose ==
    \/ CloseCleanup(1, CloseQuantities) /\ UNCHANGED <<turnVars, fsVars, graphVars, restVars>>
    \/ ClosePositions(1, PositionBooks) /\ UNCHANGED <<turnVars, fsVars, graphVars, restVars>>
    \/ CloseDelegate(1) /\ UNCHANGED <<turnVars, fsVars, graphVars, restVars>>
    \/ DryRunValidate(1, {}) /\ UNCHANGED <<turnVars, fsVars, graphVars, restVars>>
    \/ DryRunStore(1) /\ UNCHANGED <<turnVars, fsVars, graphVars, restVars>>
    \/ Return(1) /\ UNCHANGED <<turnVars, fsVars, graphVars, restVars>>

SpecClose == Init /\ [][NextClose]_vars

SpecEntryPoints == Init /\ [][NextEntryPoints]_vars

\* A trade turn: the tools run one after another, called by the loop.
NextTurn ==
    \/ Tick /\ UNCHANGED <<turnVars, fsVars, graphVars, restVars>>
    \/ TurnStart /\ UNCHANGED <<fsVars, graphVars, restVars>>
    \/ TurnGenerate /\ UNCHANGED <<fsVars, graphVars, restVars>>
    \/ ToolCallDue /\ DryRunCleanup(1) /\ UNCHANGED <<turnVars, fsVars, graphVars, restVars>>
    \/ DryRunValidate(1, LedgerInputs) /\ UNCHANGED <<turnVars, fsVars, graphVars, restVars>>
    \/ DryRunStore(1) /\ UNCHANGED <<turnVars, fsVars, graphVars, restVars>>
    \/ ToolCallDue /\ ConfirmCleanup(1) /\ UNCHANGED <<turnVars, fsVars, graphVars, restVars>>
    \/ ConfirmLock(1) /\ UNCHANGED <<turnVars, fsVars, graphVars, restVars>>
    \/ ConfirmSubmit(1) /\ UNCHANGED <<turnVars, fsVars, graphVars, restVars>>
    \/ ToolCallDue /\ CancelPendingTrade(1) /\ UNCHANGED <<turnVars, fsVars, graphVars, restVars>>
    \/ TurnToolResult /\ UNCHANGED <<fsVars, graphVars, restVars>>
    \/ TurnOtherTool /\ UNCHANGED <<fsVars, graphVars, restVars>>
    \/ TurnToolRaises /\ UNCHANGED <<fsVars, graphVars, restVars>>
    \/ TurnAudit /\ UNCHANGED <<fsVars, graphVars, restVars>>

SpecTurn == Init /\ [][NextTurn]_vars

NextFs == WriteFile \/ FsReturn

SpecFs == Init /\ [][NextFs]_vars

NextSelfModify ==
    \/ SelfModifyStart
    \/ SelfModifyGenerate
    \/ SelfModifyToolCall
    \/ SelfModifyStore

SpecSelfModify == Init /\ [][NextSelfModify]_vars

NextSummaries ==
    \/ StoreInteractionRow
    \/ \E r \in Runs : RunStart(r)
    \/ \E r \in Runs : SummarizeUnit(r)
    \/ \E r \in Runs : StoreSummary(r)
    \/ \E r \in Runs : RunReturn(r)

SpecSummaries == Init /\ [][NextSummaries]_vars

NextSummarizeCalls ==
    \/ NextSummaries
    \/ \E r \in Runs : SummarizeCall(r)

SpecSummarizeCalls == Init /\ [][NextSummarizeCalls]_vars

NextPipeline ==
    \/ StoreInteractionRow
    \/ \E r \in Runs : PipelineStart(r)
    \/ \E r \in Runs : PipelineNextTier(r)
    \/ \E r \in Runs : SummarizeUnit(r)
    \/ \E r \in Runs : StoreSummary(r)
    \/ \E r \in Runs : RunReturn(r)

SpecPipeline == Init /\ [][NextPipeline]_vars

NextRetrieval == RetrieveMemoryContext \/ RetrievalDone

SpecRetrieval == Init /\ [][NextRetrieval]_vars

NextSessionCache ==
    \/ SaveSessionOpen \/ SaveSessionDump \/ SaveSessionCloseFile
    \/ SaveSessionChmod \/ CloseSession \/ ObserveSessionFile

SpecSessionCache == Init /\ [][NextSessionCache]_vars

NextGraph ==
    \/ InvokeAlex
    \/ ClassifyIntent
    \/ EdgeAfterClassify
    \/ RetrieveMemory
    \/ EdgeAfterMemory
    \/ RespondFlash
    \/ RespondPro
    \/ RespondEngineer
    \/ RespondSelfModify
    \/ RespondTrade
    \/ EdgeShouldStore
    \/ StoreInteraction
    \/ HandleError

SpecGraph == Init /\ [][NextGraph]_vars

\* LangGraph runs the node an edge leads to: a turn that has begun goes on
SpecGraphFair == SpecGraph /\ WF_vars(NextGraph)

(***************************************************************************)
(* The claims about the pending-trade ledger.                              *)
(***************************************************************************)
Confirming(c) == local[c].op = "confirm_trade"

Returned(c, op) == pc[c] = "ret" /\ local[c].op = op

\* C1: however concurrent confirm_trade calls interleave, the brokerage
\* receives at most one submit request per pending trade; a caller submits
\* only after it removed the entry under the lock, and a caller that did not
\* remove it returns success=false without submitting.
C1_AtMostOneSubmit ==
    /\ \A i, j \in 1..Len(submitLog) :
          submitLog[i].serial = submitLog[j].serial => i = j
    /\ \A c \in Callers :
          Returned(c, "confirm_trade") =>
              /\ local[c].submitted => local[c].took
              /\ ~local[c].took => ~result[c].success /\ ~local[c].submitted
    /\ \A c, d \in Callers :
          /\ c # d /\ Confirming(c) /\ Confirming(d)
          /\ local[c].took /\ local[d].took
          => local[c].pending.serial # local[d].pending.serial

\* C1's case: two overlapping confirm_trade calls for the same trade_id have
\* returned, one executed the trade and the other failed without submitting.
C1_Witness ==
    \E c, d \in Callers :
        /\ c # d
        /\ Returned(c, "confirm_trade") /\ Returned(d, "confirm_trade")
        /\ local[c].tid = local[d].tid
        /\ result[c].success /\ local[c].submitted
        /\ ~result[d].success /\ ~local[d].submitted
        /\ Len(submitLog) = 1

\* C2: the entry is out of the map before the submit request is sent and is
\* never put back, whatever the outcome of the submit: an entry that a
\* confirm_trade call took, or for which a request was sent, is not in the map.
C2_RemovedBeforeSubmit ==
    /\ \A c \in Callers :
          Confirming(c) /\ local[c].took =>
              local[c].pending.serial \notin LiveSerials(pending_trades)
    /\ \A i \in 1..Len(submitLog) :
          submitLog[i].serial \notin LiveSerials(pending_trades)

\* C2's case: confirm_trade sent the request, the submit failed, and the call
\* returned with the trade_id absent from the map.
C2_Witness ==
    \E c \in Callers :
        /\ Returned(c, "confirm_trade")
        /\ local[c].submitted /\ ~result[c].success
        /\ local[c].tid \notin DOMAIN pending_trades

\* C3: every submit request is for an entry that was in the map and at most
\* 300 s old when the locked section read it; a call that finds the entry
\* missing or older than 300 s returns success=false with an error message
\* and sends no request.
C3_SubmitOnlyLiveEntry ==
    /\ \A i \in 1..Len(submitLog) :
          /\ submitLog[i].checked_at - submitLog[i].created_at <= 300
          /\ \E e \in storedLog : /\ e.serial = submitLog[i].serial
                                   /\ e.trade_id = submitLog[i].trade_id
    /\ \A c \in Callers :
          /\ Confirming(c) /\ pc[c] \in {"conf_submit", "ret"}
          /\ ~local[c].present \/ local[c].age > 300
          => /\ pc[c] = "ret"
             /\ ~result[c].success /\ result[c].error # ""
             /\ ~local[c].submitted

\* C3's case: the entry was in the map but 301 s old when confirm_trade read
\* it, and the call failed without a request.
C3_Witness ==
    \E c \in Callers :
        /\ Returned(c, "confirm_trade")
        /\ local[c].present /\ local[c].age = 301
        /\ ~result[c].success /\ submitLog = <<>>

InputChecksPass(in) ==
    /\ Lower(in.action) \in {"buy", "sell"}
    /\ Lower(in.order_type) \in {"market", "limit"}
    /\ Lower(in.order_type) = "limit" => in.limit_price # None
    /\ in.quantity > 0
    /\ Lower(in.instrument_type) \in {"equity", "option"}
    /\ Lower(in.instrument_type) = "option" => in.option_symbol # None

\* C5: place_order_dry_run stores an entry iff every input check passes and
\* the dry-run request returns 200/201; it then returns success with the
\* stored trade_id, requires_confirmation and expires_in_seconds = 300; in
\* every other case it returns success=false and stores nothing, and a failed
\* input check sends no request.  ("Returns 200/201" is read here as: with a
\* body that parses as JSON.)
C5_DryRunStoresIffValid ==
    \A c \in Callers :
        Returned(c, "place_order_dry_run") =>
            LET in == local[c].inputs
                accepted == /\ InputChecksPass(in)
                            /\ local[c].posted /\ local[c].validated
                            /\ local[c].body # "not_json"
            IN  /\ local[c].stored <=> accepted
                /\ result[c].success <=> accepted
                /\ result[c].success =>
                      /\ result[c].trade_id = local[c].tid
                      /\ result[c].requires_confirmation
                      /\ result[c].expires_in_seconds = 300
                /\ ~InputChecksPass(in) => ~local[c].posted

\* C6: cancel_pending_trade returns success iff the trade_id was a key of the
\* map; it removes that key, leaves every other entry as it was and sends no
\* request to the brokerage.
C6_CancelPops ==
    [][\A c \in Callers :
          pc[c] = "idle" /\ pc'[c] = "ret" /\ local'[c].op = "cancel_pending_trade"
          => LET tid == local'[c].tid
             IN  /\ result'[c].success <=> tid \in DOMAIN pending_trades
                 /\ pending_trades' =
                        Restrict(pending_trades, DOMAIN pending_trades \ {tid})
                 /\ submitLog' = submitLog]_vars

\* C6's case: a cancel found its trade_id while another entry was pending.
C6_Witness ==
    \E c \in Callers :
        /\ Returned(c, "cancel_pending_trade")
        /\ result[c].success /\ result[c].cancelled
        /\ pending_trades # <<>>

(***************************************************************************)
(* The claim about the trade turn's audit.                                 *)
(***************************************************************************)
\* C7: when a trade turn returns its response, every trade that confirm_trade
\* executed successfully during the turn has a row with its trade_id in the
\* trades table.
C7_AuditRowBeforeReturn ==
    (turn.pc = "done" /\ turn.error = None) =>
        \A i \in 1..Len(turn.executed_trades) :
            \E j \in 1..Len(trades) :
                trades[j].trade_id = turn.executed_trades[i]

(***************************************************************************)
(* The claims about write_file.                                            *)
(***************************************************************************)
\* C8: a write_file call whose path resolves outside the project root, or
\* outside every allow-listed subtree, or does not end in an allowed extension
\* fails with a permission error and changes neither a file nor a directory.
C8_DeniedWithoutMutation ==
    (fsLast.called /\ (\/ fsLast.outside_root
                       \/ fsLast.outside_subtrees
                       \/ ~fsLast.extension_allowed)) =>
        /\ fsLast.outcome = "PermissionDeniedError"
        /\ ~fsLast.mutated
        /\ ~fsLast.target_changed

\* the path stays under the root and under alex/, its extension is refused;
\* the same call with an allowed extension would have written
C8_Witness ==
    /\ fsLast.called
    /\ ~fsLast.outside_root
    /\ ~fsLast.outside_subtrees
    /\ ~fsLast.extension_allowed
    /\ ~fsLast.protected
    /\ fsLast.create_dirs
    /\ fsLast.outcome = "PermissionDeniedError"

\* C9: write_file to a protected path writes only when it is called with
\* require_confirmation = false; with require_confirmation = true it fails with
\* permission-denied and leaves the file untouched.
C9_ProtectedNeedsFlag ==
    (fsLast.called /\ fsLast.protected) =>
        /\ fsLast.target_changed => ~fsLast.require_confirmation
        /\ fsLast.require_confirmation =>
              /\ fsLast.outcome = "PermissionDeniedError"
              /\ ~fsLast.mutated
              /\ ~fsLast.target_changed

\* a protected file that exists is written with require_confirmation = false
C9_Witness ==
    /\ fsLast.called
    /\ fsLast.protected
    /\ fsLast.target_existed
    /\ ~fsLast.require_confirmation
    /\ fsLast.outcome = "success"
    /\ fsLast.target_changed

(***************************************************************************)
(* The claims about the routing after classify.                            *)
(***************************************************************************)
\* the edge after classify_intent has chosen a node that has not run yet
Routed == ran = <<"classify_intent">> /\ node # "route_after_classify"

\* C10: with no error set after classify, the node after classify follows from
\* the intent alone, whatever the complexity score: self_modify goes to
\* respond_self_modify, trade to respond_trade, the engineering intents to
\* respond_engineer, and memory_query / question / task_planning to
\* retrieve_memory.
C10_IntentDecidesRoute ==
    (Routed /\ state.error = None /\ state.processing_stage # "error") =>
        /\ state.intent = "self_modify" => node = "respond_self_modify"
        /\ state.intent = "trade" => node = "respond_trade"
        /\ state.intent \in {"code_change", "refactor", "debug", "test", "deploy"}
              => node = "respond_engineer"
        /\ state.intent \in {"memory_query", "question", "task_planning"}
              => node = "retrieve_memory"

\* task_planning with complexity 0.9 is sent to retrieve_memory
C10_Witness ==
    /\ node = "retrieve_memory"
    /\ state.intent = "task_planning"
    /\ state.complexity_score = 9
    /\ state.error = None

\* the intents that an earlier branch of route_after_classify matches
EarlierBranchIntents ==
    {"self_modify", "trade", "code_change", "refactor", "debug", "test",
     "deploy", "memory_query", "question", "task_planning"}

RoutedByComplexity ==
    /\ Routed
    /\ state.error = None
    /\ state.processing_stage # "error"
    /\ state.intent \notin EarlierBranchIntents

\* C11 (as stated): with no error set and an intent that no earlier branch
\* matches, the node after classify is respond_pro iff complexity_score >= the
\* complexity threshold, and respond_flash otherwise.
C11_ComplexityDecidesRoute ==
    RoutedByComplexity =>
        /\ node \in {"respond_pro", "respond_flash"}
        /\ node = "respond_pro" <=> state.complexity_score >= complexity_threshold

\* C11 (amended): with no error set and an intent that no earlier branch
\* matches, the node after classify is respond_pro iff complexity_score >= the
\* complexity threshold or the intent is architecture or analysis, and
\* respond_flash otherwise.
C11_ComplexityOrProIntent ==
    RoutedByComplexity =>
        /\ node \in {"respond_pro", "respond_flash"}
        /\ node = "respond_pro" <=>
              \/ state.complexity_score >= complexity_threshold
              \/ state.intent \in {"architecture", "analysis"}

\* an analysis request of complexity 0.2 is sent to respond_pro, a creative
\* request of complexity 0.7 as well
C11_Witness ==
    /\ RoutedByComplexity
    /\ node = "respond_pro"
    /\ \/ state.intent = "analysis" /\ state.complexity_score = 2
       \/ state.intent = "creative" /\ state.complexity_score = complexity_threshold

\* the edge after retrieve_memory has chosen a node that has not run yet
RoutedAfterMemory ==
    /\ ran = <<"classify_intent", "retrieve_memory">>
    /\ node # "route_after_memory"

\* C12: after retrieve_memory the next node is respond_pro iff
\* complexity_score >= 0.7 or the memory context holds more than 3 relevant
\* interactions, and respond_flash otherwise.
C12_MemoryRoute ==
    RoutedAfterMemory =>
        /\ node \in {"respond_pro", "respond_flash"}
        /\ node = "respond_pro" <=>
              \/ state.complexity_score >= 7
              \/ state.relevant_interactions > 3

\* a question of complexity 0.2 with 4 relevant interactions goes to Pro
C12_Witness ==
    /\ RoutedAfterMemory
    /\ node = "respond_pro"
    /\ state.complexity_score = 2
    /\ state.relevant_interactions = 4

\* the moment the should_store edge after a responder has chosen
AfterResponder ==
    /\ Len(ran) >= 1
    /\ ran[Len(ran)] \in Responders
    /\ node \in {"store_interaction", "END"}

\* C13: after any responder node, store_interaction runs iff the state has no
\* error, the last user message has at least 5 characters and the last
\* assistant message at least 10; otherwise the turn goes straight to END
\* and nothing is stored for it.
C13_StoreIffNoErrorAndLongEnough ==
    AfterResponder =>
        LET user_msg == GetLastUserMessage(state)
            assistant_msg == GetLastAssistantMessage(state)
        IN  /\ node = "store_interaction" <=>
                  /\ state.error = None
                  /\ state.processing_stage # "error"
                  /\ Truthy(user_msg) /\ Len(user_msg) >= 5
                  /\ Truthy(assistant_msg) /\ Len(assistant_msg) >= 10
            /\ node = "END" => interactions = <<>>

\* the simple-chat scenario at the end of its turn: the user wrote "hi", the
\* classifier answered chat with complexity 0.1, and Flash, wherever it was
\* called, answered with at least 10 characters
SimpleChat ==
    /\ node = "END"
    /\ GetLastUserMessage(state) = "hi"
    /\ Len(outcomes) >= 1
    /\ outcomes[1] = Outcome("classifier", "json", "")
    /\ state.intent = "chat"
    /\ state.complexity_score = 1
    /\ \A i \in 1..Len(outcomes) :
          outcomes[i].call = "flash" =>
              outcomes[i].outcome = "ok" /\ Len(outcomes[i].text) >= 10

\* C14, as stated: in the simple-chat scenario the turn runs classify ->
\* respond_flash, store_interaction then runs, and the result has
\* cortex = flash.
C14_SimpleChatStores ==
    SimpleChat =>
        /\ ran = <<"classify_intent", "respond_flash", "store_interaction">>
        /\ ResultOf(state).cortex = "flash"

\* C14, amended: in the simple-chat scenario the turn runs classify ->
\* respond_flash and then ends without running store_interaction (the user
\* message "hi" has fewer than 5 characters), nothing is stored, and the
\* result has cortex = flash.
C14_SimpleChatNotStored ==
    SimpleChat =>
        /\ ran = <<"classify_intent", "respond_flash">>
        /\ interactions = <<>>
        /\ ResultOf(state).cortex = "flash"

C14_Witness ==
    /\ SimpleChat
    /\ Len(outcomes) = 2
    /\ outcomes[2] = Outcome("flash", "ok", "Hello! How can I help you today?")
    /\ ResultOf(state).response = "Hello! How can I help you today?"

\* the errors classify_intent sets
ClassifyErrors ==
    {"No user message to classify"}
    \cup {"Classification failed: " \o e : e \in ExceptionTexts}

\* classify_intent ran in this turn and set error
ClassifyFailed ==
    /\ Len(ran) >= 1
    /\ ran[1] = "classify_intent"
    /\ state.error \in ClassifyErrors

\* C15: if classify sets error, the next node is handle_error whatever the
\* intent and the complexity are; handle_error appends the assistant message
\* "I encountered an error: {error}. Please try again.", sets
\* processing_stage = error, and the turn ends without running a responder
\* or store_interaction.
C15_ClassifyErrorHandled ==
    ClassifyFailed =>
        /\ node \in {"route_after_classify", "handle_error", "END"}
        /\ ran \in {<<"classify_intent">>, <<"classify_intent", "handle_error">>}
        /\ node = "END" =>
              /\ ran = <<"classify_intent", "handle_error">>
              /\ state.messages[Len(state.messages)] =
                     AIMessage("I encountered an error: " \o state.error
                               \o ". Please try again.")
              /\ state.processing_stage = "error"
        /\ interactions = <<>>

C15_Witness ==
    /\ ClassifyFailed
    /\ node = "END"
    /\ state.error = "Classification failed: timed out"
    /\ ResultOf(state).response =
           "I encountered an error: Classification failed: timed out. Please try again."

\* the classification model answered with text that is not JSON
ParseFailed ==
    /\ Len(outcomes) >= 1
    /\ outcomes[1] = Outcome("classifier", "not_json", "")

\* C16: if the classifier model's output cannot be parsed as JSON, classify
\* sets intent = chat and complexity_score = 0.5, leaves error unset and sets
\* processing_stage = classify, so the turn continues to a responder and
\* never reaches handle_error.
C16_ParseFailureContinues ==
    ParseFailed =>
        /\ state.intent = "chat"
        /\ state.complexity_score = 5
        /\ node = "route_after_classify" =>
              state.error = None /\ state.processing_stage = "classify"
        /\ Routed => node \in Responders
        /\ node # "handle_error"
        /\ \A i \in 1..Len(ran) : ran[i] # "handle_error"
        /\ node = "END" => Len(ran) >= 2 /\ ran[2] \in Responders

C16_Witness ==
    /\ ParseFailed
    /\ node = "END"
    /\ ran = <<"classify_intent", "respond_flash", "store_interaction">>
    /\ state.error = None

\* respond_pro ran and its Pro call failed; the call logged after it
RespondProFellBack ==
    /\ \E k \in 1..Len(ran) : ran[k] = "respond_pro"
    /\ \E i \in 1..Len(outcomes) : outcomes[i] = Outcome("pro", "raises", "")

FlashAfterPro ==
    outcomes[(CHOOSE i \in 1..Len(outcomes) :
                  outcomes[i] = Outcome("pro", "raises", "")) + 1]

\* C17: if the Pro model call in respond_pro fails, respond_pro returns the
\* result of respond_flash on the same state: when Flash succeeds the turn
\* ends with the Flash response, current_cortex = flash, model_used = the
\* Flash model and no error; an error reaches the turn only when Flash fails
\* as well.
C17_ProFallsBackToFlash ==
    RespondProFellBack =>
        /\ FlashAfterPro.call = "flash"
        /\ FlashAfterPro.outcome = "ok" =>
              /\ ResultOf(state).response = FlashAfterPro.text
              /\ ResultOf(state).cortex = "flash"
              /\ ResultOf(state).model_used = flash_model
              /\ state.error = None
              /\ state.processing_stage # "error"
        /\ (state.error # None \/ state.processing_stage = "error") =>
              FlashAfterPro.outcome = "raises"

C17_Witness ==
    /\ RespondProFellBack
    /\ node = "END"
    /\ FlashAfterPro = Outcome("flash", "ok", "Hello! How can I help you today?")
    /\ ResultOf(state).cortex = "flash"

\* respond_engineer ran and could not use the engineering model: it is not
\* configured, or its call failed or timed out
EngineerModelUnavailable ==
    /\ \E k \in 1..Len(ran) : ran[k] = "respond_engineer"
    /\ \E i \in 1..Len(outcomes) :
          /\ outcomes[i].call = "claude"
          /\ outcomes[i].outcome \in {"not_configured", "raises"}

ClaudeCallIndex ==
    CHOOSE i \in 1..Len(outcomes) : outcomes[i].call = "claude"

\* C18: whenever respond_engineer cannot use its preferred engineering model
\* (it is not configured, or its call fails or times out), the node falls back
\* to the Pro chat path; when Pro then succeeds the turn ends with the Pro
\* answer, current_cortex = pro, no error set, and model_used ending in
\* "(fallback)".
C18_EngineerFallsBackToPro ==
    EngineerModelUnavailable =>
        /\ Len(outcomes) > ClaudeCallIndex
        /\ outcomes[ClaudeCallIndex + 1].call = "pro"
        /\ outcomes[ClaudeCallIndex + 1].outcome = "ok" =>
              /\ ResultOf(state).response = outcomes[ClaudeCallIndex + 1].text
              /\ ResultOf(state).cortex = "pro"
              /\ state.error = None
              /\ ResultOf(state).model_used = pro_model \o " (fallback)"

\* retrieve_memory ran in this turn
MemoryRan ==
    /\ Len(ran) >= 2
    /\ ran[2] = "retrieve_memory"

\* C19: retrieve_memory never sets error and never fails the turn: when the
\* store (or any retrieval call) raises, it returns an empty MemoryContext
\* with processing_stage = retrieve_memory, and the turn continues to
\* respond_flash or respond_pro.
C19_MemoryNeverFailsTurn ==
    MemoryRan =>
        /\ ran = <<"classify_intent", "retrieve_memory">> =>
              /\ state.error = None
              /\ state.processing_stage = "retrieve_memory"
              /\ node \in {"route_after_memory", "respond_flash", "respond_pro"}
        /\ outcomes[2] = Outcome("retriever", "raises", "") =>
              state.relevant_interactions = 0
        /\ node # "handle_error"
        /\ \A i \in 1..Len(ran) : ran[i] # "handle_error"
        /\ Len(ran) >= 3 => ran[3] \in {"respond_flash", "respond_pro"}

C19_Witness ==
    /\ MemoryRan
    /\ outcomes[2] = Outcome("retriever", "raises", "")
    /\ node = "END"
    /\ ran = <<"classify_intent", "retrieve_memory", "respond_pro", "store_interaction">>

\* a step of store_interaction in which the embedding or the database call
\* raised
StoreStepFailed ==
    /\ node = "store_interaction"
    /\ Len(outcomes') = Len(outcomes) + 2
    /\ \/ outcomes'[Len(outcomes) + 1] = Outcome("embedding", "raises", "")
       \/ outcomes'[Len(outcomes) + 2] = Outcome("database", "raises", "")

\* C20: if store_interaction fails while writing (embedding or database
\* error), the failure is not propagated: the node returns
\* processing_stage = complete and sets no error, and the turn returns the
\* same response that the responder produced.
C20_StoreFailureNotPropagated ==
    [][StoreStepFailed =>
          /\ state' = [state EXCEPT !.processing_stage = "complete"]
          /\ ~Truthy(state'.error)
          /\ node' = "END"
          /\ state.messages[Len(state.messages)].role = "assistant"
          /\ ResultOf(state').response =
                 state.messages[Len(state.messages)].content
          /\ outcomes'[Len(outcomes) + 2].outcome = "raises" =>
                 interactions' = interactions]_vars

C20_Witness ==
    /\ node = "END"
    /\ Len(ran) = 3 /\ ran[3] = "store_interaction"
    /\ outcomes[Len(outcomes)] = Outcome("database", "raises", "")
    /\ state.processing_stage = "complete"
    /\ state.error = None
    /\ interactions = <<>>
    /\ ResultOf(state).response = "Hello! How can I help you today?"

\* C21: the tool loop makes at most 10 model calls per turn: it stops at the
\* first model response that contains no tool call, and if all 10 responses
\* contain tool calls it stops after the 10th round and returns with no
\* error set.
C21_LoopCapEndsWithoutError ==
    /\ turn.iteration <= max_iterations
    /\ turn.tool_rounds >= turn.iteration - 1
    /\ (turn.pc \in {"generate", "tools"}) => turn.tool_rounds = turn.iteration
    /\ (turn.pc = "done" /\ turn.tool_rounds = max_iterations) =>
          /\ turn.error = None
          /\ turn.processing_stage = "trade"

\* C22: a tool call that fails (unknown tool name, an error inside the
\* handler, or arguments that do not fit the handler's parameters) yields a
\* recorded result and the loop goes on; a tool failure never aborts the loop
\* and never becomes a turn-level error: a turn ends with an error only when
\* the client or a model call failed.
C22_ToolFailureNeverAbortsTurn ==
    [][ToolCallDue /\ turn' # turn =>
          /\ turn'.n_tool_results = turn.n_tool_results + 1
          /\ turn'.pc \in {"tools", "generate", "audit"}
          /\ turn'.error = None]_vars

\* the paths of the write_file calls that returned success, in call order
RECURSIVE SuccessfulWrites(_)
SuccessfulWrites(writes) ==
    IF writes = <<>> THEN <<>>
    ELSE LET rest == SuccessfulWrites(SubSeq(writes, 1, Len(writes) - 1))
             last == writes[Len(writes)]
         IN  IF last.success THEN Append(rest, last.path) ELSE rest

WithoutDailySummary(dates) ==
    {d \in dates : ~\E ds \in tables.daily_summaries : ds.date = d}

\* C25: after a daily run that finished with an empty errors list and with
\* no interaction stored while it ran, every date that had an interaction
\* and no daily summary before the run has a daily summary, except that of
\* n such dates with n above the run's limit at most n - limit remain.
C25_DailyRunCoversUpToLimit ==
    \A r \in Runs :
        (/\ runs[r].pc = "finished"
         /\ runs[r].tier = "daily"
         /\ runs[r].errors = <<>>
         /\ ~runs[r].disturbed)
            => LET n == Cardinality(runs[r].before)
                   left == Cardinality(WithoutDailySummary(runs[r].before))
               IN  IF n > runs[r].limit
                   THEN left <= n - runs[r].limit
                   ELSE left = 0

\* a daily run limited to one day left one of two days behind, and the
\* daily run with the default limit that followed summarized it
C25_Witness ==
    \E r, q \in Runs :
        /\ runs[r].pc = "finished" /\ runs[r].tier = "daily"
        /\ runs[r].limit = 1 /\ Cardinality(runs[r].before) = 2
        /\ runs[r].errors = <<>> /\ ~runs[r].disturbed
        /\ runs[q].pc = "finished" /\ runs[q].tier = "daily"
        /\ runs[q].limit = max_days /\ Cardinality(runs[q].before) = 1
        /\ runs[q].errors = <<>> /\ ~runs[q].disturbed
        /\ runs[q].after = "finished"
        /\ WithoutDailySummary(runs[r].before) = {}

\* the number of times the model was asked to summarize the unit
ModelCalls(tier, unit) ==
    Cardinality({i \in 1..Len(sumLog.model_calls) :
                    sumLog.model_calls[i] = <<tier, unit>>})

\* C26: however two pipeline runs interleave, each summary table holds at
\* most one row per date, week id or month id, and the model summarizes
\* each unit at most twice.
C26_OneRowPerKeyAndAtMostTwoCalls ==
    /\ \A a, b \in tables.daily_summaries : a.date = b.date => a = b
    /\ \A a, b \in tables.weekly_summaries : a.week_id = b.week_id => a = b
    /\ \A a, b \in tables.monthly_summaries : a.month_id = b.month_id => a = b
    /\ \A i \in 1..Len(sumLog.model_calls) :
           ModelCalls(sumLog.model_calls[i][1], sumLog.model_calls[i][2]) <= 2

\* two overlapping daily runs both summarized and stored 2026-02-01, and
\* the table holds the row of the run that stored last
C26_Witness ==
    /\ ModelCalls("daily", "2026-02-01") = 2
    /\ \A r \in Runs : runs[r].pc = "finished" /\ runs[r].writes >= 1
                       /\ runs[r].after = "no"
    /\ \E ds \in tables.daily_summaries :
           ds.date = "2026-02-01" /\ ds.content = 1

\* C27: when place_order_dry_run, close_position_dry_run, confirm_trade or
\* cancel_pending_trade returns, the pending map holds no entry that was
\* already older than 300 s when the call started.
C27_EntryPointsSweep ==
    \A c \in Callers :
        pc[c] = "ret"
            => LiveSerials(pending_trades) \cap local[c].expired_at_start = {}

\* a dry run that stores its PendingTrade and returns success
SuccessfulDryRunStore(c) ==
    /\ pc[c] = "dry_store" /\ pc'[c] = "ret"
    /\ result'[c].success

\* C28: every successful dry run stores its PendingTrade under a trade_id
\* that is not a key of the pending map, so that no live entry is
\* overwritten and the map grows by exactly one entry.
C28_FreshTradeId ==
    [][\A c \in Callers :
          SuccessfulDryRunStore(c)
              => /\ result'[c].trade_id \notin DOMAIN pending_trades
                 /\ LiveSerials(pending_trades) \subseteq LiveSerials(pending_trades')
                 /\ Cardinality(DOMAIN pending_trades')
                        = Cardinality(DOMAIN pending_trades) + 1]_vars

\* a brokerage request or a session call of the caller is in flight: the
\* dry run, get_positions, or the submission
InFlight(c) == pc[c] \in {"dry_validate", "close_positions", "conf_submit"}

AskedQuantity(close) ==
    IF close.quantity # <<>> THEN close.quantity[1]
    ELSE Abs(close.position_quantity)

\* C30: close_position_dry_run with quantity q on a position of signed
\* quantity Q fails without a dry-run request and without a pending entry
\* when there is no matching position or q > |Q|; otherwise it calls
\* place_order_dry_run with a market order, sell for Q > 0 and buy for
\* Q < 0, of quantity q when q is given and |Q| when it is omitted.
C30_ClosePositionOrder ==
    \A c \in Callers :
        (local[c].op = "close_position_dry_run" /\ pc[c] # "close_positions")
            => LET close == local[c].close
                   failed == /\ ~close.delegated
                             /\ ~local[c].posted
                             /\ ~local[c].stored
                             /\ pc[c] = "ret" /\ ~result[c].success
               IN  IF ~close.found THEN failed
                   ELSE IF /\ close.quantity # <<>>
                           /\ close.quantity[1] > Abs(close.position_quantity)
                   THEN failed
                   ELSE /\ close.delegated
                        /\ local[c].inputs.order_type = "market"
                        /\ close.position_quantity > 0
                               => local[c].inputs.action = "sell"
                        /\ close.position_quantity < 0
                               => local[c].inputs.action = "buy"
                        /\ local[c].inputs.quantity = AskedQuantity(close)

\* the serials of the entries for which a submit request was sent, or that
\* a confirm_trade took out of the map and is about to submit
TakenByConfirm ==
    {submitLog[i].serial : i \in 1..Len(submitLog)}
    \cup {local[c].pending.serial :
             c \in {x \in Callers : pc[x] = "conf_submit" /\ local[x].took}}

\* C36: confirm_trade and cancel_pending_trade never both take one entry:
\* the entry a successful cancel popped was not and is not being submitted,
\* and is no longer in the map for a confirm_trade to find.
C36_ConfirmOrCancelTakesEntry ==
    \A c \in Callers :
        (/\ pc[c] = "ret"
         /\ local[c].op = "cancel_pending_trade"
         /\ result[c].success)
            => /\ local[c].pending.serial # 0
               /\ local[c].pending.serial \notin TakenByConfirm
               /\ local[c].pending.serial \notin LiveSerials(pending_trades)

\* confirm_trade and cancel_pending_trade were called with one trade_id
\* while its entry was live: the cancel took it and the confirm found nothing
C36_Witness ==
    \E c, d \in Callers :
        /\ pc[c] = "ret" /\ local[c].op = "cancel_pending_trade"
        /\ result[c].success
        /\ pc[d] = "ret" /\ local[d].op = "confirm_trade"
        /\ local[d].tid = local[c].tid
        /\ ~local[d].took /\ ~local[d].present
        /\ submitLog = <<>>

\* the nodes that ran in the turn are at most four and all different; when
\* the turn has ended, classify_intent ran first and exactly one of them is
\* a responder or handle_error
TurnIsLinear ==
    /\ Len(ran) <= 4
    /\ \A i, j \in 1..Len(ran) : ran[i] = ran[j] => i = j
    /\ node = "END"
           => /\ ran[1] = "classify_intent"
              /\ Cardinality({i \in 1..Len(ran) :
                     ran[i] \in Responders \cup {"handle_error"}}) = 1

\* C35: every turn reaches END, after at most four node executions, with no
\* node run twice and exactly one of the five responders or handle_error
\* run.
C35_TurnTerminates == []TurnIsLinear /\ <>(node = "END")

\* a turn of four nodes has ended: classify, memory, a responder, the store
C35_Witness ==
    /\ node = "END"
    /\ ran = <<"classify_intent", "retrieve_memory", "respond_pro",
               "store_interaction">>

\* C37: the response invoke_alex returns for a turn is an assistant message
\* appended during the turn, after the user's message, never an assistant
\* message of the conversation history.
C37_ResponseIsOfThisTurn ==
    node = "END"
        => /\ state.messages[Len(state.messages)].role = "assistant"
           /\ ResultOf(state).response
                  = state.messages[Len(state.messages)].content

\* C38: when a trade turn has ended, every trade confirm_trade executed in
\* it is in tool_outputs.executed_trades and went through the audit step;
\* when a self-modify turn has ended, every file write_file wrote in it is
\* in tool_outputs.files_modified.
C38_SideEffectsReported ==
    /\ turn.pc = "done"
           => /\ TurnToolOutputs(turn).executed_trades = turn.executed_trades
              /\ turn.executed_trades # <<>> => turn.processing_stage = "trade"
    /\ sm.pc \in {"done", "failed"}
           => SelfModifyToolOutputs(sm).files_modified = sm.files_modified

\* the sub-queries retrieve_memory has reason to call for the message
Called(r) ==
    {"temporal"}
    \cup (IF Len(r.user_message) > 10 THEN {"semantic"} ELSE {})
    \cup (IF r.topics # <<>> THEN {"concepts"} ELSE {})
    \cup (IF r.entities # <<>> THEN {"projects"} ELSE {})

Raising(r) ==
    {q \in Called(r) :
        \/ q = "temporal" /\ r.daily.raises
        \/ q = "semantic" /\ r.search.raises
        \/ q = "concepts" /\ r.concepts.raises
        \/ q = "projects" /\ r.projects.raises}

\* the fields of the MemoryContext a sub-query fills: what it returned, and
\* nothing if it raised
FieldsHold(r, q) ==
    LET c == r.memory_context
    IN  CASE q = "temporal" ->
                 /\ c.daily_summary =
                        IF r.daily.raises THEN None ELSE r.daily.value[1]
                 /\ c.weekly_summary =
                        IF r.daily.raises THEN None ELSE r.daily.value[2]
          [] q = "semantic" ->
                 c.relevant_interactions = CaughtInside(r.search)
          [] q = "concepts" ->
                 c.related_concepts = CaughtInside(r.concepts)
          [] q = "projects" ->
                 c.related_projects = CaughtInside(r.projects)

\* C31: when exactly one of the sub-queries of retrieve_memory raises, its
\* own MemoryContext fields are empty and every other field holds what its
\* sub-query returned.
C31_SubQueriesFailIndependently ==
    (retrieval.called /\ Cardinality(Raising(retrieval)) = 1)
        => \A q \in Called(retrieval) : FieldsHold(retrieval, q)

\* C34: while a session is being saved no other process observes the cache
\* file partially written or with permissions wider than owner read/write.
C34_SessionFileRewrittenAtomically ==
    (sessionCache.observed.looked /\ sessionCache.observed.exists)
        => /\ JsonLoad(sessionCache.observed.content).decoded
           /\ sessionCache.observed.mode \subseteq OwnerReadWrite

\* C33: in every reachable store state every DailySummary's date has an
\* Interaction, every WeeklySummary's (year, week) has a DailySummary and
\* every MonthlySummary's month has a WeeklySummary.
C33_SummariesHaveSourceRows ==
    /\ \A ds \in tables.daily_summaries :
           \E i \in tables.interactions : i.date = ds.date
    /\ \A ws \in tables.weekly_summaries :
           \E x \in tables.days, ds \in tables.daily_summaries :
               /\ x.date = ds.date
               /\ x.year = ws.year /\ x.week_number = ws.week
    /\ \A ms \in tables.monthly_summaries :
           \E x \in tables.days, ws \in tables.weekly_summaries :
               /\ x.year = ws.year /\ x.week_number = ws.week
               /\ x.year = ms.year /\ x.month = ms.month

\* a call for a unit without source rows has been skipped, and a run in
\* which a call failed has written a summary and returned
C33_Witness ==
    /\ \E r \in Runs : runs[r].pc = "finished" /\ runs[r].skipped > 0
    /\ \E r \in Runs :
           /\ runs[r].pc = "finished"
           /\ runs[r].errors # <<>>
           /\ runs[r].summarized # {}

\* the tiers of a pipeline run that have selected their units
TiersSelected(t) ==
    CASE t.pc = "idle" -> {}
      [] t.tier = "daily" -> {"daily"}
      [] t.tier = "weekly" -> {"daily", "weekly"}
      [] t.tier = "monthly" -> Tiers

\* the weeks and months that got their first source row from the run and
\* whose tier has selected its units within its cap
FreshAndDue(t) ==
    {u \in t.fresh :
        \E tier \in TiersSelected(t) \ t.capped : u \in Units(tier)}

ReturnedClean(t) ==
    /\ t.pipeline /\ t.pc = "finished"
    /\ t.failed = {} /\ t.capped = {}
    /\ ~t.disturbed

DailyCountIsCurrent(ds) ==
    ds.interaction_count
        = Cardinality(SourceRows("daily", ds.date, tables))

WeeklyCountIsCurrent(ws) ==
    ws.daily_summary_count
        = Cardinality(SourceRows("weekly", ws.week_id, tables))

\* C39 as stated: after a full pipeline run without errors, within the caps
\* and without concurrent writes, every DailySummary's interaction_count is
\* the number of Interactions of its date and every WeeklySummary's
\* daily_summary_count the number of DailySummaries of its week.
C39_CountsCoverCurrentSourceRows ==
    \A r \in Runs :
        ReturnedClean(runs[r])
            => /\ \A ds \in tables.daily_summaries : DailyCountIsCurrent(ds)
               /\ \A ws \in tables.weekly_summaries : WeeklyCountIsCurrent(ws)

\* C39, amended: after such a run the counts of the summaries that the run
\* itself generated are those of their current source rows.
C39_CountsOfGeneratedSummariesAreCurrent ==
    \A r \in Runs :
        ReturnedClean(runs[r])
            => /\ \A ds \in tables.daily_summaries :
                      ds.date \in runs[r].summarized => DailyCountIsCurrent(ds)
               /\ \A ws \in tables.weekly_summaries :
                      ws.week_id \in runs[r].summarized
                          => WeeklyCountIsCurrent(ws)

\* such a run has generated a daily and a weekly summary, and a weekly
\* summary of an earlier run has got a further daily summary since
C39_Witness ==
    \E r \in Runs :
        /\ ReturnedClean(runs[r])
        /\ \E ds \in tables.daily_summaries : ds.date \in runs[r].summarized
        /\ \E ws \in tables.weekly_summaries : ws.week_id \in runs[r].summarized
        /\ \E ws \in tables.weekly_summaries : ~WeeklyCountIsCurrent(ws)

=============================================================================
